---- MODULE Spec2Model ----
(***************************************************************************)
(* Model of ezomyte's item-mod database (template -> regex conversion,     *)
(* sharded regex matcher, mod resolution) and of the item JSON decoder.    *)
(*                                                                         *)
(* Strings are sequences of one-character strings, so that escaping,       *)
(* prefix tests and lengths are computed character by character.           *)
(* Option<T> is a sequence of length 0 (None) or 1 (Some(x)).              *)
(***************************************************************************)
EXTENDS Integers, Sequences, FiniteSets, TLC

\* ------------------------------------------------------------------ bounds
MaxTemplateLen == 2
MaxTemplates == 2
MaxPrefixes == 1
MaxPrefixLen == 1
MaxTextLen == 2
MaxMods == 1
MaxKeys == 8

\* ------------------------------------------------------------- alphabets
\* Characters of mod text templates ("#" is the value placeholder).
TemplateChars == {"a", "+", "1", "#"}
\* Characters of the mod texts found on items.
TextChars == {"a", "A", "+", "1"}

None == << >>
Some(x) == << x >>

\* Iterator::collect into a Vec: the sequence with its elements computed.
Vec(f) == f \o << >>

\* All strings over chars with length in lo..hi.
StringsOver(chars, lo, hi) == UNION { [1..n -> chars] : n \in lo..hi }

\* ---------------------------------------------------------- string helpers
RECURSIVE Flatten(_)
Flatten(ss) == IF ss = << >> THEN << >> ELSE Head(ss) \o Flatten(Tail(ss))

Drop(s, n) == SubSeq(s, n + 1, Len(s))

\* str::starts_with
StartsWith(s, p) == Len(p) <= Len(s) /\ SubSeq(s, 1, Len(p)) = p

\* Case folding as applied by a case-insensitive regex.
Lower(c) == IF c = "A" THEN "a" ELSE IF c = "D" THEN "d" ELSE c

IsSpace(c) == c = " "

RECURSIVE TrimLeft(_)
TrimLeft(s) == IF s # << >> /\ IsSpace(Head(s)) THEN TrimLeft(Tail(s)) ELSE s

RECURSIVE TrimRight(_)
TrimRight(s) ==
    IF s # << >> /\ IsSpace(s[Len(s)]) THEN TrimRight(SubSeq(s, 1, Len(s) - 1)) ELSE s

\* str::trim
Trim(s) == TrimRight(TrimLeft(s))

\* str::trim_right_matches("$")
RECURSIVE TrimRightDollar(_)
TrimRightDollar(s) ==
    IF s # << >> /\ s[Len(s)] = "$"
    THEN TrimRightDollar(SubSeq(s, 1, Len(s) - 1)) ELSE s

\* --------------------------------------------------------------- regexes
\* Characters regex::escape puts a backslash in front of.
MetaChars == {"\\", ".", "+", "*", "?", "(", ")", "|", "[", "]", "{", "}",
              "^", "$", "#", "&", "-", "~"}

\* regex::escape
escape(s) == Flatten([i \in 1..Len(s) |->
                 IF s[i] \in MetaChars THEN <<"\\", s[i]>> ELSE <<s[i]>>])

\* VALUE_RE = \+?(\d+(?:\.\d+)?)
VALUE_RE == <<"\\", "+", "?", "(", "\\", "d", "+", "(", "?", ":",
              "\\", ".", "\\", "d", "+", ")", "?", ")">>

\* VALUE_PH = regex::escape("#")
VALUE_PH == escape(<<"#">>)

\* str::replace(VALUE_PH, VALUE_RE): left to right, non-overlapping.
RECURSIVE ReplacePlaceholder(_)
ReplacePlaceholder(s) ==
    IF s = << >> THEN << >>
    ELSE IF StartsWith(s, VALUE_PH)
         THEN VALUE_RE \o ReplacePlaceholder(Drop(s, Len(VALUE_PH)))
         ELSE <<Head(s)>> \o ReplacePlaceholder(Tail(s))

\* "#% increased Life"  ->  ^\+?(\d+(?:\.\d+)?)% increased Life$
regex_from_mod_text_template(text) ==
    <<"^">> \o ReplacePlaceholder(escape(Trim(text))) \o <<"$">>

\* The regex engine's reading of a pattern string: a sequence of tokens,
\* bol (^), eol ($), lit (one literal character), val (a VALUE_RE group).
RECURSIVE ParseRegex(_)
ParseRegex(re) ==
    IF re = << >> THEN << >>
    ELSE IF StartsWith(re, VALUE_RE)
         THEN <<[kind |-> "val", ch |-> "#"]>> \o ParseRegex(Drop(re, Len(VALUE_RE)))
    ELSE IF Head(re) = "\\" /\ Len(re) >= 2
         THEN <<[kind |-> "lit", ch |-> re[2]]>> \o ParseRegex(Drop(re, 2))
    ELSE IF Head(re) = "^"
         THEN <<[kind |-> "bol", ch |-> "^"]>> \o ParseRegex(Tail(re))
    ELSE IF Head(re) = "$"
         THEN <<[kind |-> "eol", ch |-> "$"]>> \o ParseRegex(Tail(re))
    ELSE <<[kind |-> "lit", ch |-> Head(re)]>> \o ParseRegex(Tail(re))

IsDigit(c) == c \in {"0", "1", "2", "3", "4", "5", "6", "7", "8", "9"}

AllDigits(s) == s # << >> /\ \A i \in 1..Len(s) : IsDigit(s[i])

\* \d+(?:\.\d+)?
IsNumeral(s) ==
    \/ AllDigits(s)
    \/ \E k \in 2..(Len(s) - 1) :
          /\ s[k] = "."
          /\ AllDigits(SubSeq(s, 1, k - 1))
          /\ AllDigits(SubSeq(s, k + 1, Len(s)))

\* What the capture group of VALUE_RE holds when the group's text is s.
Captured(s) == IF s # << >> /\ Head(s) = "+" THEN Tail(s) ELSE s

\* \+?(\d+(?:\.\d+)?) matches the whole of s
IsValueText(s) == IsNumeral(Captured(s))

\* The leftmost-first match of the tokens against the whole of s (ci: case
\* is ignored), with the texts of its capture groups.  Greedy repetition
\* makes each value group take the longest text that lets the rest match.

RECURSIVE MatchTokens(_, _, _)
MatchTokens(toks, s, ci) ==
    IF toks = << >> THEN [ok |-> TRUE, caps |-> << >>]
    ELSE LET t == Head(toks) IN
      CASE t.kind = "eol" ->
             IF s = << >> THEN MatchTokens(Tail(toks), s, ci)
             ELSE [ok |-> FALSE, caps |-> << >>]
        [] t.kind = "bol" -> [ok |-> FALSE, caps |-> << >>]
        [] t.kind = "lit" ->
             IF s # << >> /\ (IF ci THEN Lower(Head(s)) = Lower(t.ch)
                                     ELSE Head(s) = t.ch)
             THEN MatchTokens(Tail(toks), Tail(s), ci)
             ELSE [ok |-> FALSE, caps |-> << >>]
        [] OTHER ->
             LET Longest(good) ==
                     IF good = {} THEN [ok |-> FALSE, caps |-> << >>]
                     ELSE LET Take(n) ==
                                  [ok |-> TRUE,
                                   caps |-> <<Captured(SubSeq(s, 1, n))>>
                                            \o MatchTokens(Tail(toks), Drop(s, n), ci).caps]
                          IN Take(CHOOSE m \in good : \A k \in good : k <= m)
             IN Longest({ n \in 1..Len(s) :
                            /\ IsValueText(SubSeq(s, 1, n))
                            /\ MatchTokens(Tail(toks), Drop(s, n), ci).ok })

\* RegexBuilder::new(str).build(): the compiled pattern keeps its source
\* string (Regex::as_str) next to the program the engine runs.
RegexNew(str) == [str |-> str, prog |-> ParseRegex(str)]

\* Regex::captures (ci: compiled with case_insensitive(true)); a pattern that
\* does not start with ^ is searched for at every offset of the text.
RegexCaptures(regex, text, ci) ==
    LET Anchored(toks, offs) ==
            IF offs = {} THEN [ok |-> FALSE, caps |-> << >>]
            ELSE MatchTokens(toks,
                     Drop(text, CHOOSE i \in offs : \A j \in offs : i <= j), ci)
    IN IF regex.prog # << >> /\ Head(regex.prog).kind = "bol"
       THEN Anchored(Tail(regex.prog), {0})
       ELSE Anchored(regex.prog,
                     { i \in 0..Len(text) : MatchTokens(regex.prog, Drop(text, i), ci).ok })

\* Regex::is_match on a pattern compiled with case_insensitive(true)
IsMatch(regex, text) == RegexCaptures(regex, text, TRUE).ok

\* Regex::captures_len() - 1
CaptureCount(regex) ==
    Cardinality({ i \in 1..Len(regex.prog) : regex.prog[i].kind = "val" })

\* ------------------------------------------------------- number parsing
DigitValue(c) ==
    CASE c = "0" -> 0 [] c = "1" -> 1 [] c = "2" -> 2 [] c = "3" -> 3
      [] c = "4" -> 4 [] c = "5" -> 5 [] c = "6" -> 6 [] c = "7" -> 7
      [] c = "8" -> 8 [] OTHER -> 9

RECURSIVE DigitsToNat(_)
DigitsToNat(s) ==
    IF s = << >> THEN 0
    ELSE 10 * DigitsToNat(SubSeq(s, 1, Len(s) - 1)) + DigitValue(s[Len(s)])

RECURSIVE Pow10(_)
Pow10(n) == IF n = 0 THEN 1 ELSE 10 * Pow10(n - 1)

RECURSIVE Gcd(_, _)
Gcd(a, b) == IF b = 0 THEN a ELSE Gcd(b, a % b)

\* A float value as a reduced fraction num/den (den = 0 stands for infinity).
Fraction(num, den) ==
    LET g == Gcd(IF num < 0 THEN -num ELSE num, den) IN
    IF g = 0 THEN [num |-> 0, den |-> 0]
    ELSE [num |-> num \div g, den |-> den \div g]

\* str::split on one character
RECURSIVE SplitOn(_, _)
SplitOn(s, c) ==
    LET hits == { i \in 1..Len(s) : s[i] = c } IN
    IF hits = {} THEN << s >>
    ELSE LET i == CHOOSE k \in hits : \A j \in hits : k <= j
         IN << SubSeq(s, 1, i - 1) >> \o SplitOn(Drop(s, i), c)

\* str::parse::<u64>: digits with an optional leading plus sign.
ParseU64(s) ==
    LET d == IF s # << >> /\ Head(s) = "+" THEN Tail(s) ELSE s IN
    IF AllDigits(d) THEN [ok |-> TRUE, value |-> Fraction(DigitsToNat(d), 1)]
    ELSE [ok |-> FALSE, value |-> Fraction(0, 1)]

\* str::parse::<f64> on decimal notation: sign, digits, optional fraction
\* (one of the two digit runs may be empty, not both).
ParseF64(s) ==
    LET neg == s # << >> /\ Head(s) = "-"
        d == IF s # << >> /\ Head(s) \in {"+", "-"} THEN Tail(s) ELSE s
        Value(n, ip, fp) ==
            IF /\ n <= 2
               /\ ip \o fp # << >>
               /\ \A i \in 1..Len(ip \o fp) : IsDigit((ip \o fp)[i])
            THEN [ok |-> TRUE,
                  value |-> Fraction((IF neg THEN -1 ELSE 1) * DigitsToNat(ip \o fp),
                                     Pow10(Len(fp)))]
            ELSE [ok |-> FALSE, value |-> Fraction(0, 1)]
        OfParts(parts) ==
            Value(Len(parts), parts[1], IF Len(parts) = 2 THEN parts[2] ELSE << >>)
    IN OfParts(SplitOn(d, "."))

\* util::parse_number
parse_number(s) ==
    LET Parsed(r) ==
            IF r.ok THEN [ok |-> TRUE, err |-> "", value |-> r.value]
            ELSE [ok |-> FALSE, err |-> "Float", value |-> Fraction(0, 1)]
        OrElse(u, amount) == IF u.ok THEN Parsed(u) ELSE Parsed(ParseF64(amount))
        Amount(amount) == OrElse(ParseU64(amount), amount)
        Quotient(n, d) ==
            IF n.ok /\ d.ok
            THEN [ok |-> TRUE, err |-> "",
                  value |-> IF d.value.num < 0
                            THEN Fraction(-(n.value.num * d.value.den),
                                          -(n.value.den * d.value.num))
                            ELSE Fraction(n.value.num * d.value.den,
                                          n.value.den * d.value.num)]
            ELSE [ok |-> FALSE, err |-> "Float", value |-> Fraction(0, 1)]
        OfNums(nums) ==
            CASE Len(nums) = 1 -> Amount(Trim(nums[1]))
              [] Len(nums) = 2 -> Quotient(ParseF64(Trim(nums[1])), ParseF64(Trim(nums[2])))
              [] OTHER -> [ok |-> FALSE, err |-> "Syntax", value |-> Fraction(0, 1)]
    IN OfNums(SplitOn(Trim(s), "/"))

\* ------------------------------------------------------------- mod infos
ModTypes == {"crafted", "enchant", "explicit", "implicit"}

\* ModInfo::from_raw
ModInfo(type_, number, text) ==
    [id |-> [type_ |-> type_, number |-> number],
     text_template |-> text,
     regex |-> RegexNew(regex_from_mod_text_template(text))]

\* ModInfo::param_count
param_count(mi) == CaptureCount(mi.regex)

\* ModInfo::parse_text: kind is "None", "Some" (with the values) or "panic"
\* (a capture that parse_number rejects is unwrapped).
parse_text(mi, text) ==
    IF param_count(mi) = 0 THEN [kind |-> "Some", values |-> << >>]
    ELSE LET Values(nums) ==
                 IF \E i \in 1..Len(nums) : ~nums[i].ok
                 THEN [kind |-> "panic", values |-> << >>]
                 ELSE [kind |-> "Some", values |-> [i \in 1..Len(nums) |-> nums[i].value]]
             Matched(m) ==
                 IF ~m.ok THEN [kind |-> "None", values |-> << >>]
                 ELSE Values([i \in 1..Len(m.caps) |-> parse_number(m.caps[i])])
         IN Matched(RegexCaptures(mi.regex, Trim(text), TRUE))

\* The decimal digits of a natural number.
RECURSIVE NatToDigits(_)
NatToDigits(n) ==
    IF n < 10 THEN << <<"0", "1", "2", "3", "4", "5", "6", "7", "8", "9">>[n + 1] >>
    ELSE NatToDigits(n \div 10) \o NatToDigits(n % 10)

\* The digits after the point of r / den, for a fraction that ends.
RECURSIVE FractionDigits(_, _)
FractionDigits(r, den) ==
    IF r = 0 THEN << >>
    ELSE NatToDigits((r * 10) \div den) \o FractionDigits((r * 10) % den, den)

\* f64::to_string of a value with a finite decimal expansion: "69" for 69.0,
\* "1.5", "-1".
F64ToString(value) ==
    LET Of(abs) ==
            NatToDigits(abs \div value.den)
            \o (IF abs % value.den = 0 THEN << >>
                ELSE <<".">> \o FractionDigits(abs % value.den, value.den))
    IN IF value.num < 0 THEN <<"-">> \o Of(-value.num) ELSE Of(value.num)

\* str::replacen(from, to, 1): the first occurrence is replaced.
ReplaceFirst(s, from, to) ==
    LET hits == { i \in 0..(Len(s) - Len(from)) : StartsWith(Drop(s, i), from) } IN
    IF hits = {} THEN s
    ELSE LET i == CHOOSE k \in hits : \A j \in hits : k <= j
         IN SubSeq(s, 1, i) \o to \o Drop(s, i + Len(from))

\* ModInfo::format_text: kind is "panic" (wrong number of values) or "text".
RECURSIVE FormatFrom(_, _)
FormatFrom(text, values) ==
    IF values = << >> THEN text
    ELSE FormatFrom(ReplaceFirst(text, <<"#">>, F64ToString(Head(values))), Tail(values))

format_text(mi, values) ==
    IF param_count(mi) # Len(values) THEN [kind |-> "panic", text |-> << >>]
    ELSE [kind |-> "text", text |-> FormatFrom(mi.text_template, values)]

\* -------------------------------------------------------- RegexMatcherShard
\* Stable sort of s on the parallel integer keys, descending
\* (Vec::sort_by_key with the negated length as the key): insertion of
\* each element after the sorted elements whose key is not smaller.
RECURSIVE InsertDesc(_, _)
InsertDesc(sorted, x) ==
    IF sorted = << >> THEN << x >>
    ELSE IF Head(sorted)[1] >= x[1]
         THEN << Head(sorted) >> \o InsertDesc(Tail(sorted), x)
         ELSE << x >> \o sorted

\* The sort left out: the elements in the order they came in.
KeepOrder(s, keys) == s

RECURSIVE SortPairsDesc(_)
SortPairsDesc(ps) ==
    IF ps = << >> THEN << >>
    ELSE InsertDesc(SortPairsDesc(SubSeq(ps, 1, Len(ps) - 1)), ps[Len(ps)])

SortByKeyDesc(s, keys) ==
    LET Seconds(sorted) == Vec([i \in 1..Len(s) |-> sorted[i][2]])
    IN Seconds(SortPairsDesc(Vec([i \in 1..Len(s) |-> << keys[i], s[i] >>])))

\* RegexMatcherShard::new leaving out the last pair of the mapping.
ShardNew_DropsLast(mapping) ==
    [regex_set |-> Vec([i \in 1..(Len(mapping) - 1) |-> RegexNew(mapping[i][1])]),
     items |-> Vec([i \in 1..(Len(mapping) - 1) |-> mapping[i][2]])]

\* RegexMatcherShard::new: mapping is a sequence of <<regex, item>> pairs.
ShardNew(mapping) ==
    [regex_set |-> Vec([i \in 1..Len(mapping) |-> RegexNew(mapping[i][1])]),
     items |-> Vec([i \in 1..Len(mapping) |-> mapping[i][2]])]

\* RegexMatcherShard::count
ShardCount(shard) == Len(shard.regex_set)

\* RegexMatcherShard::lookup_all: the items of the matching patterns, in
\* index order (RegexSet::matches iterates in ascending index order).
ShardLookupAll(shard, text) ==
    LET RECURSIVE From(_)
        From(i) == IF i > Len(shard.regex_set) THEN << >>
                   ELSE (IF IsMatch(shard.regex_set[i], text)
                         THEN << shard.items[i] >> ELSE << >>) \o From(i + 1)
    IN From(1)

\* ------------------------------------------------------------ RegexMatcher
\* RegexMatcher::new: no sharding, everything in the fallback shard.
MatcherNew(mapping) == [shards |-> None, fallback |-> Some(ShardNew(mapping))]

\* RegexMatcher::with_shards
with_shards(prefixes_in, mapping) ==
    IF prefixes_in = << >> THEN MatcherNew(mapping)
    ELSE
    LET Build(shards_mapping, catchall) ==
            [shards |-> IF shards_mapping = << >> THEN None
                        ELSE Some(ShardNew(shards_mapping)),
             fallback |-> IF catchall = << >> THEN None ELSE Some(ShardNew(catchall))]
        NonEmpty(pair) == pair[2] # << >>
        Zipped(kept) ==
            Vec([i \in 1..Len(kept) |-> << kept[i][1], ShardNew(kept[i][2]) >>])
        \* shard_of[j]: index of the shard mapping[j] goes to, 0 for the catch-all
        Split(prefixes, shard_of) ==
            LET RECURSIVE Of(_, _)
                Of(i, j) == IF j > Len(mapping) THEN << >>
                            ELSE (IF shard_of[j] = i THEN << mapping[j] >> ELSE << >>)
                                 \o Of(i, j + 1)
            IN Build(Zipped(SelectSeq(
                         Vec([i \in 1..Len(prefixes) |->
                                 << IF StartsWith(prefixes[i], <<"^">>) THEN prefixes[i]
                                    ELSE <<"^">> \o prefixes[i],
                                    Of(i, 1) >>]),
                         NonEmpty)),
                     Of(0, 1))
        First(hits) == IF hits = << >> THEN 0 ELSE Head(hits)
        Sharded(prefixes, prefix_matcher) ==
            Split(prefixes,
                  Vec([j \in 1..Len(mapping) |->
                          First(ShardLookupAll(prefix_matcher, mapping[j][1]))]))
        Sorted(prefixes) ==
            Sharded(prefixes,
                    ShardNew(Vec([i \in 1..Len(prefixes) |->
                                     << <<"^">> \o escape(prefixes[i]), i >>])))
    IN Sorted(SortByKeyDesc(prefixes_in,
                            Vec([i \in 1..Len(prefixes_in) |-> Len(prefixes_in[i])])))

\* RegexMatcher::count
count(rm) ==
    LET regular_count ==
            IF rm.shards = None THEN 0
            ELSE LET sh == rm.shards[1].items
                     RECURSIVE Sum(_)
                     Sum(i) == IF i > Len(sh) THEN 0 ELSE ShardCount(sh[i]) + Sum(i + 1)
                 IN Sum(1)
    IN regular_count + Len(rm.fallback)

\* RegexMatcher::items
items(rm) ==
    (IF rm.shards = None THEN << >>
     ELSE Flatten([i \in 1..Len(rm.shards[1].items) |-> rm.shards[1].items[i].items]))
    \o (IF rm.fallback = None THEN << >> ELSE rm.fallback[1].items)

\* RegexMatcher::lookup_all
lookup_all(rm, text) ==
    LET InShards(hit) == Flatten([i \in 1..Len(hit) |-> ShardLookupAll(hit[i], text)])
        OrFallback(regular_matches) ==
            IF regular_matches # << >> THEN regular_matches
            ELSE IF rm.fallback = None THEN << >>
                 ELSE ShardLookupAll(rm.fallback[1], text)
    IN OrFallback(IF rm.shards = None THEN << >>
                  ELSE InShards(ShardLookupAll(rm.shards[1], text)))

\* ----------------------------------------------------------------- Database
\* The lines of mod-text-prefixes.txt that Database::new keeps.
IsPrefixLine(line) == line # << >> /\ ~StartsWith(TrimLeft(line), <<"/", "/">>)

\* PREFIXES in Database::new
PREFIXES(lines) ==
    LET kept == SelectSeq(lines, IsPrefixLine)
    IN Vec([i \in 1..Len(kept) |-> TrimRightDollar(regex_from_mod_text_template(kept[i]))])

\* Database::new: data maps each mod type that has mods to its ModInfos, in
\* the iteration order of the type's HashMap.  The matchers hold Arc<ModInfo>
\* references to the infos of by_type_and_id: a reference is the info's ModId.
RECURSIVE MatchersFor(_, _, _)
MatchersFor(types, data, prefixes) ==
    IF types = {} THEN << >>
    ELSE LET mt == CHOOSE t \in types : TRUE IN
         (mt :> with_shards(prefixes,
                    Vec([i \in 1..Len(data[mt]) |->
                            << data[mt][i].regex.str, data[mt][i].id >>])))
         @@ MatchersFor(types \ {mt}, data, prefixes)

DatabaseNew(data, lines) ==
    [by_type_and_id |-> data,
     matchers_by_type |-> MatchersFor(DOMAIN data, data, PREFIXES(lines))]

\* A fixed enumeration order of the mod types, for sums and concatenations.
ModTypeSeq == <<"crafted", "enchant", "explicit", "implicit">>

\* Database::len
len(db) ==
    LET RECURSIVE Sum(_)
        Sum(i) == IF i > Len(ModTypeSeq) THEN 0
                  ELSE (IF ModTypeSeq[i] \in DOMAIN db.matchers_by_type
                        THEN count(db.matchers_by_type[ModTypeSeq[i]]) ELSE 0) + Sum(i + 1)
    IN Sum(1)

\* Database::iter
iter(db) ==
    Flatten([i \in 1..Len(ModTypeSeq) |->
                IF ModTypeSeq[i] \in DOMAIN db.matchers_by_type
                THEN items(db.matchers_by_type[ModTypeSeq[i]]) ELSE << >>])

\* Database::lookup
lookup(db, id) ==
    IF id.type_ \in DOMAIN db.by_type_and_id
    THEN LET hits == SelectSeq(db.by_type_and_id[id.type_], LAMBDA mi : mi.id = id)
         IN IF hits = << >> THEN None ELSE Some(Head(hits))
    ELSE None

\* The ModInfo an Arc<ModInfo> held by a matcher points to.
Info(db, id) == lookup(db, id)[1]

\* The pick of Database::resolve among several matches: the first of the
\* matches after a stable sort on descending regex length.
PickLongest(db, matching_mods) ==
    Head(SortByKeyDesc(matching_mods,
             Vec([i \in 1..Len(matching_mods) |->
                     Len(Info(db, matching_mods[i]).regex.str)])))

\* Database::resolve with the zero-match early return dropped: the pick among
\* the matches is taken from an empty list, which panics.
resolve_NoEarlyReturn(db, mod_type, text) ==
    IF mod_type \notin DOMAIN db.matchers_by_type
    THEN [kind |-> "None", data |-> None]
    ELSE LET Parsed(mod_, parsed) ==
                 IF parsed.kind = "Some"
                 THEN [kind |-> "Some", data |-> Some(<< mod_, parsed.values >>)]
                 ELSE [kind |-> "panic", data |-> None]
             Picked(mod_) == Parsed(mod_, parse_text(Info(db, mod_), text))
             Among(matching_mods) ==
                 IF matching_mods = << >> THEN [kind |-> "panic", data |-> None]
                 ELSE Picked(IF Len(matching_mods) = 1 THEN Head(matching_mods)
                             ELSE PickLongest(db, matching_mods))
         IN Among(lookup_all(db.matchers_by_type[mod_type], text))

\* Database::resolve: kind is "None", "Some" (data = <<mod, values>>) or
\* "panic" (the expect() on parse_text fails).
resolve(db, mod_type, text) ==
    IF mod_type \notin DOMAIN db.matchers_by_type
    THEN [kind |-> "None", data |-> None]
    ELSE LET Parsed(mod_, parsed) ==
                 IF parsed.kind = "Some"
                 THEN [kind |-> "Some", data |-> Some(<< mod_, parsed.values >>)]
                 ELSE [kind |-> "panic", data |-> None]
             Picked(mod_) == Parsed(mod_, parse_text(Info(db, mod_), text))
             Among(matching_mods) ==
                 IF matching_mods = << >> THEN [kind |-> "None", data |-> None]
                 ELSE Picked(IF Len(matching_mods) = 1 THEN Head(matching_mods)
                             ELSE PickLongest(db, matching_mods))
         IN Among(lookup_all(db.matchers_by_type[mod_type], text))

\* Mod::new (with the mods_db feature): the Mod, unless resolve panics.
ModNew(db, type_, text) ==
    LET Of(r) == [panic |-> r.kind = "panic",
                  mod |-> [type_ |-> type_, text |-> text, data |-> r.data]]
    IN Of(resolve(db, type_, text))

\* ItemVisitor::deserialize_mods on a JSON array of strings: Ok with one Mod
\* per string, unless a Mod::new panics.
deserialize_mods(db, mod_type, texts) ==
    LET All(news) == [ok |-> \A i \in 1..Len(news) : ~news[i].panic,
                      mods |-> Vec([i \in 1..Len(news) |-> news[i].mod])]
    IN All(Vec([i \in 1..Len(texts) |-> ModNew(db, mod_type, texts[i])]))

\* ============================================================ item decoder
\* Result<T, E> of the serde calls: an error has a type (the de::Error
\* constructor) and the thing it names.
Ok(v) == [ok |-> TRUE, value |-> Some(v), err |-> [type_ |-> "", what |-> ""]]
Err(type_, what) == [ok |-> FALSE, value |-> None, err |-> [type_ |-> type_, what |-> what]]

\* --------------------------------------------------------- markup tags
Digits == {"0", "1", "2", "3", "4", "5", "6", "7", "8", "9"}
Letters == {"a", "b", "c", "d", "e", "f", "g", "h", "i", "j", "k", "l", "m",
            "n", "o", "p", "q", "r", "s", "t", "u", "v", "w", "x", "y", "z",
            "A", "B", "C", "D", "E", "F", "G", "H", "I", "J", "K", "L", "M",
            "N", "O", "P", "Q", "R", "S", "T", "U", "V", "W", "X", "Y", "Z"}

\* \w
IsWordChar(c) == c \in Letters \cup Digits \cup {"_"}

\* The length of the run of word characters s starts with.
RECURSIVE WordRun(_)
WordRun(s) == IF s # << >> /\ IsWordChar(Head(s)) THEN 1 + WordRun(Tail(s)) ELSE 0

\* The length of the match of ANGLE_TAG_RE, <<\w+:\w+>>, at the start of s
\* (0: no match there).
TagLen(s) ==
    IF ~StartsWith(s, <<"<", "<">>) THEN 0
    ELSE LET a == WordRun(Drop(s, 2))
             r1 == Drop(s, 2 + a)
         IN IF a = 0 \/ r1 = << >> \/ Head(r1) # ":" THEN 0
            ELSE LET b == WordRun(Tail(r1))
                     r2 == Drop(r1, 1 + b)
                 IN IF b = 0 \/ ~StartsWith(r2, <<">", ">">>) THEN 0
                    ELSE a + b + 5

\* remove_angle_bracket_tags
RECURSIVE remove_angle_bracket_tags(_)
remove_angle_bracket_tags(s) ==
    IF s = << >> THEN << >>
    ELSE IF TagLen(s) > 0 THEN remove_angle_bracket_tags(Drop(s, TagLen(s)))
         ELSE << Head(s) >> \o remove_angle_bracket_tags(Tail(s))

\* ItemVisitor::deserialize_nonempty_string
deserialize_nonempty_string(value) ==
    IF value = << >> THEN Err("invalid_value", "non-empty string") ELSE Ok(value)

\* ItemVisitor::deserialize_name
deserialize_name(name) == Ok(IF name = << >> THEN None ELSE Some(name))

\* ------------------------------------------------------------- category
\* An ItemCategory: the variant and, for the grouped ones, the subtype
\* (for Other, the string).
Category(variant, sub) == [variant |-> variant, sub |-> sub]

\* The JSON of a category: a string, or a map of keys to arrays of strings.
JsonStr(s) == [form |-> "str", str |-> s, entries |-> << >>]
JsonMap(entries) == [form |-> "map", str |-> "", entries |-> entries]

AccessoryTypes == [amulet |-> "Amulet", belt |-> "Belt", ring |-> "Ring"]
ArmourTypes == [helmet |-> "Helmet", gloves |-> "Gloves", chest |-> "Chest",
                boots |-> "Boots", shield |-> "Shield", quiver |-> "Quiver"]
WeaponTypes == [bow |-> "Bow", claw |-> "Claw", dagger |-> "Dagger",
                oneaxe |-> "OneHandedAxe", onemace |-> "OneHandedMace",
                onesword |-> "OneHandedSword", sceptre |-> "Sceptre",
                staff |-> "Staff", twoaxe |-> "TwoHandedAxe",
                twomace |-> "TwoHandedMace", twosword |-> "TwoHandedSword",
                wand |-> "Wand"]
PlainCategories == [cards |-> "DivinationCard", currency |-> "Currency",
                    flasks |-> "Flask", gems |-> "Gem", maps |-> "Map"]

\* str::trim().to_lowercase() on the category names the inputs use.
TrimToLowercase(name) ==
    CASE name = "Currency" -> "currency"
      [] name = " currency" -> "currency"
      [] name = "Gems" -> "gems"
      [] name = " Zorkmids" -> "zorkmids"
      [] OTHER -> name

\* A grouped category: the subtype is the first string of the array.
GroupedCategory(variant, types, subcats, what) ==
    IF subcats # << >> /\ subcats[1] \in DOMAIN types
    THEN Ok(Category(variant, types[subcats[1]]))
    ELSE Err("custom", what)

\* ItemCategoryVisitor::visit_map
ItemCategoryVisitMap(entries) ==
    IF Len(entries) # 1 THEN Err("invalid_length", "exactly one key")
    ELSE LET key == TrimToLowercase(entries[1].key)
             subcats == entries[1].subcats
         IN CASE key = "accessories" ->
                   GroupedCategory("Accessory", AccessoryTypes, subcats, "unexpected accessory type")
              [] key = "armour" ->
                   GroupedCategory("Armour", ArmourTypes, subcats, "unexpected armour type")
              [] key = "weapons" ->
                   GroupedCategory("Weapon", WeaponTypes, subcats, "unexpected weapon type")
              [] key = "jewels" ->
                   IF subcats = << >> THEN Ok(Category("Jewel", "Regular"))
                   ELSE IF subcats[1] = "abyss" THEN Ok(Category("Jewel", "Abyss"))
                        ELSE Err("custom", "unexpected jewel type")
              [] key \in DOMAIN PlainCategories -> Ok(Category(PlainCategories[key], ""))
              [] OTHER -> Err("unknown_field", entries[1].key)

\* visit_str as it would be if a string outside the list were an error.
ItemCategoryVisitStr_Strict(v) ==
    LET c == TrimToLowercase(v) IN
    CASE c = "jewels" -> Ok(Category("Jewel", "Regular"))
      [] c \in DOMAIN PlainCategories -> Ok(Category(PlainCategories[c], ""))
      [] OTHER -> Err("unknown_variant", c)

\* ItemCategoryVisitor::visit_str
ItemCategoryVisitStr(v) ==
    LET c == TrimToLowercase(v) IN
    CASE c = "jewels" -> Ok(Category("Jewel", "Regular"))
      [] c \in DOMAIN PlainCategories -> Ok(Category(PlainCategories[c], ""))
      [] OTHER -> Ok(Category("Other", c))

\* ItemCategory::deserialize
DeserializeItemCategory(json) ==
    IF json.form = "map" THEN ItemCategoryVisitMap(json.entries)
    ELSE ItemCategoryVisitStr(json.str)

\* Quasi<T>: the true value, or the undeserialized source as a substitute.
QuasiTrue(v) == [quasi |-> "True", value |-> Some(v), source |-> None]
QuasiSubstitute(s) == [quasi |-> "Substitute", value |-> None, source |-> Some(s)]

\* Quasi::<ItemCategory>::deserialize: never an error for well-formed JSON.
DeserializeQuasiCategory(json) ==
    LET r == DeserializeItemCategory(json) IN
    Ok(IF r.ok THEN QuasiTrue(r.value[1]) ELSE QuasiSubstitute(json))

\* Quasi::as_ref
QuasiAsRef(q) == q.value

\* ------------------------------------------------------- stash stream
\* enum State of Stashes::get_stashes_stream
State_Start(change_id) == [kind |-> "Start", change_id |-> change_id]
State_Next(change_id) == [kind |-> "Next", change_id |-> Some(change_id)]
State_End == [kind |-> "End", change_id |-> None]

\* The state of stream::unfold: Ready with the closure's next state,
\* Processing the request made with a change id, or Empty.
Unfold_Ready(state) == [kind |-> "Ready", state |-> Some(state), change_id |-> None]
Unfold_Processing(change_id) ==
    [kind |-> "Processing", state |-> None, change_id |-> change_id]
Unfold_Empty == [kind |-> "Empty", state |-> None, change_id |-> None]

\* The next state left out of the same-id test: a repeated change id is
\* followed like a new one.
next_state_FollowsSameId(change_id, resp) ==
    IF resp.next_change_id # None THEN State_Next(resp.next_change_id[1]) ELSE State_End

\* The next state the response handler of get_stashes_stream computes from
\* the change id of the request and the response.
next_state(change_id, resp) ==
    IF resp.next_change_id # None
    THEN LET SameCid(next_cid) == change_id # None /\ change_id[1] = next_cid
             Of(next_cid) == IF SameCid(next_cid) THEN State_End ELSE State_Next(next_cid)
         IN Of(resp.next_change_id[1])
    ELSE State_End

\* ----------------------------------------------------------- properties
\* Properties: the value-less keys (set) and the valued ones (map).
PropertiesNew == [set |-> {}, map |-> << >>]

MapWithout(map, key) == [k \in DOMAIN map \ {key} |-> map[k]]
MapWith(map, key, value) ==
    [k \in DOMAIN map \cup {key} |-> IF k = key THEN value ELSE map[k]]

\* Properties::put: the container after the call and what the call returns.
put(p, key) ==
    LET prev == IF key \in DOMAIN p.map THEN Some(p.map[key]) ELSE None IN
    [props |-> [set |-> p.set \cup {key}, map |-> MapWithout(p.map, key)],
     ret |-> IF key \notin p.set THEN Some(prev) ELSE None]

\* Properties::put_with_value leaving the key among the value-less ones.
put_with_value_KeepsInSet(p, key, value) ==
    [props |-> [set |-> p.set, map |-> MapWith(p.map, key, value)],
     ret |-> IF key \in DOMAIN p.map THEN Some(Some(p.map[key]))
             ELSE IF key \in p.set THEN Some(None) ELSE None]

\* Properties::put_with_value
put_with_value(p, key, value) ==
    LET was_in_set == key \in p.set IN
    [props |-> [set |-> p.set \ {key}, map |-> MapWith(p.map, key, value)],
     ret |-> IF key \in DOMAIN p.map THEN Some(Some(p.map[key]))
             ELSE IF was_in_set THEN Some(None) ELSE None]

\* Properties::remove
remove(p, key) ==
    IF key \in p.set
    THEN [props |-> [set |-> p.set \ {key}, map |-> p.map], ret |-> Some(None)]
    ELSE IF key \in DOMAIN p.map
         THEN [props |-> [set |-> p.set, map |-> MapWithout(p.map, key)],
               ret |-> Some(Some(p.map[key]))]
         ELSE [props |-> p, ret |-> None]

\* Properties::insert
insert(p, key, opt_value) ==
    IF opt_value # None THEN put_with_value(p, key, opt_value[1]) ELSE put(p, key)

\* Properties::clear
clear(p) == [props |-> [set |-> {}, map |-> << >>], ret |-> None]

\* Properties::len
PropertiesLen(p) == Cardinality(p.set) + Cardinality(DOMAIN p.map)

\* Properties::is_empty
is_empty(p) == p.set = {} /\ DOMAIN p.map = {}

\* name.split(',') with each part trimmed, on the property names in use.
SplitOnComma(name) ==
    CASE name = "Support, Projectile" -> <<"Support", "Projectile">>
      [] OTHER -> << name >>

RECURSIVE PutAll(_, _)
PutAll(p, keys) ==
    IF keys = << >> THEN p ELSE PutAll(put(p, Head(keys)).props, Tail(keys))

\* PropertiesVisitor::visit_seq on an array of {name, values} objects, each
\* given as its name and the first string of its values, if any.
RECURSIVE PropertiesVisitSeq(_, _)
PropertiesVisitSeq(seq, result) ==
    IF seq = << >> THEN result
    ELSE LET prop == Head(seq) IN
         PropertiesVisitSeq(Tail(seq),
             IF prop.value # None
             THEN put_with_value(result, prop.name, prop.value[1]).props
             ELSE PutAll(result, SplitOnComma(prop.name)))

DeserializeProperties(json) == Ok(PropertiesVisitSeq(json, PropertiesNew))

\* -------------------------------------------------------- value parsers
\* The digits fit the unsigned width.  Numbers of ten digits or more are
\* beyond the integers of the model and count as too wide for any width.
FitsUnsigned(d, bits) ==
    Len(d) <= 9 /\ (bits >= 30 \/ DigitsToNat(d) < 2 ^ bits)

\* str::parse to an unsigned integer of the given width.
ParseUnsigned(s, bits) ==
    LET d == IF s # << >> /\ Head(s) = "+" THEN Tail(s) ELSE s IN
    IF AllDigits(d) /\ FitsUnsigned(d, bits)
    THEN Ok(DigitsToNat(d))
    ELSE Err("invalid_value", "number as string")

\* The leftmost match of QUALITY_RE, [+](\d+)%, in s: its digits, or None.
RECURSIVE QualityCapture(_)
QualityCapture(s) ==
    IF s = << >> THEN None
    ELSE LET n == IF Head(s) = "+"
                  THEN CHOOSE k \in 0..Len(s) :
                          /\ \A j \in 2..(k + 1) : IsDigit(s[j])
                          /\ (k + 2 > Len(s) \/ ~IsDigit(s[k + 2]))
                  ELSE 0
         IN IF n > 0 /\ n + 2 <= Len(s) /\ s[n + 2] = "%"
            THEN Some(SubSeq(s, 2, n + 1))
            ELSE QualityCapture(Tail(s))

\* Quality::deserialize (QualityVisitor::visit_str)
DeserializeQuality(v) ==
    LET caps == QualityCapture(v) IN
    IF caps = None THEN Err("invalid_value", "item quality value")
    ELSE IF FitsUnsigned(caps[1], 8) THEN Ok(DigitsToNat(caps[1]))
         ELSE Err("custom", "invalid percentage number")

\* Experience::new: the assertions panic (a panic is carried as an error of
\* type "panic" up to the arm that called the deserializer).
ExperienceNew(current, total) ==
    IF total = 0 THEN Err("panic", "Total experience cannot be zero")
    ELSE IF current > total
         THEN Err("panic", "Current experience must not be greater than total")
         ELSE Ok([current |-> current, total |-> total])

\* Experience::deserialize (ExperienceVisitor::visit_str)
DeserializeExperience(v) ==
    LET parts == SplitOn(v, "/") IN
    IF Len(parts) # 2 THEN Err("invalid_value", "gem experience")
    ELSE IF ~ParseU64(parts[1]).ok THEN Err("custom", "invalid current experience value")
         ELSE IF ~ParseU64(parts[2]).ok THEN Err("custom", "invalid total experience value")
              ELSE ExperienceNew(ParseU64(parts[1]).value.num, ParseU64(parts[2]).value.num)

\* str::replace
RECURSIVE Replace(_, _, _)
Replace(s, from, to) ==
    IF s = << >> THEN << >>
    ELSE IF from # << >> /\ StartsWith(s, from)
         THEN to \o Replace(Drop(s, Len(from)), from, to)
         ELSE << Head(s) >> \o Replace(Tail(s), from, to)

\* The gem level: "(Max)" is dropped and the rest trimmed before parsing.
ParseGemLevel(lvl) == ParseUnsigned(Trim(Replace(lvl, <<"(", "M", "a", "x", ")">>, << >>)), 32)

\* The flask duration: seconds as a float, kept as whole milliseconds.
ParseDuration(secs) ==
    LET f == ParseF64(secs) IN
    IF ~f.ok THEN Err("invalid_value", "flask duration in seconds")
    ELSE Ok(IF f.value.num < 0 THEN 0 ELSE (f.value.num * 1000) \div f.value.den)

\* -------------------------------------------------------------- sockets
\* The distinct group numbers, in ascending order.
RECURSIVE SortedGroups(_)
SortedGroups(groups) ==
    IF groups = {} THEN << >>
    ELSE LET g == CHOOSE x \in groups : \A y \in groups : x <= y
         IN << g >> \o SortedGroups(groups \ {g})

RegularColors == {"R", "G", "B", "W"}

\* ItemSocketsVisitor::visit_seq on an array of {group, sColour} objects.
DeserializeItemSockets(json) ==
    LET regular == SelectSeq(json, LAMBDA s : s.sColour # "A")
        ids == SortedGroups({ regular[i].group : i \in 1..Len(regular) })
    IN IF \E i \in 1..Len(regular) : regular[i].sColour \notin RegularColors
       THEN Err("unknown_variant", "socket colour")
       ELSE Ok([abyss_count |-> Len(json) - Len(regular),
                regular_groups |->
                    Vec([k \in 1..Len(ids) |->
                        [id |-> ids[k] % 2 ^ 8,
                         colors |-> Vec([j \in 1..Len(SelectSeq(regular, LAMBDA s : s.group = ids[k])) |->
                                        SelectSeq(regular, LAMBDA s : s.group = ids[k])[j].sColour])]])])

\* --------------------------------------------------------- requirements
\* RequirementVisitor::visit_str
DeserializeRequirement(v) ==
    CASE v = "Level" -> Ok("Level")
      [] v \in {"Str", "Strength"} -> Ok("Strength")
      [] v \in {"Dex", "Dexterity"} -> Ok("Dexterity")
      [] v \in {"Int", "Intelligence"} -> Ok("Intelligence")
      [] OTHER -> Err("unknown_variant", v)

\* The "requirements" arm: the valued properties become the requirements map.
\* The order in which a HashMap yields its entries is unspecified, so when
\* several entries are bad the error reported is one of theirs.
DeserializeRequirements(json) ==
    LET props == PropertiesVisitSeq(json, PropertiesNew)
        keys == DOMAIN props.map
        badKey == { k \in keys : ~DeserializeRequirement(k).ok }
        badValue == { k \in keys : ~ParseUnsigned(props.map[k], 32).ok }
        dup == { k \in keys \ badKey : \E k2 \in keys \ (badKey \cup {k}) :
                    DeserializeRequirement(k).value = DeserializeRequirement(k2).value }
    IN IF badKey # {} THEN DeserializeRequirement(CHOOSE k \in badKey : TRUE)
       ELSE IF badValue # {} THEN Err("custom", "failed to parse requirement value")
       ELSE IF dup # {} THEN Err("custom", "duplicate requirement")
       ELSE Ok([r \in { DeserializeRequirement(k).value[1] : k \in keys } |->
                   ParseUnsigned(props.map[CHOOSE k \in keys :
                       DeserializeRequirement(k).value[1] = r], 32).value[1]])

\* ------------------------------------------------------ the item visitor
\* The locals of ItemVisitor::visit_map, all None before the first key.
VisitorNew ==
    [id |-> None, name |-> None, base |-> None, level |-> None, category |-> None,
     rarity |-> None, quality |-> None, properties |-> None, identified |-> None,
     sockets |-> None, requirements |-> None, corrupted |-> None, influence |-> None,
     duplicated |-> None, flavour_text |-> None, extra |-> << >>,
     map_tier |-> None, item_quantity |-> None, item_rarity |-> None,
     monster_pack_size |-> None, gem_level |-> None, gem_xp |-> None,
     duration |-> None, charges_per_use |-> None, flask_mods |-> None,
     implicit_mods |-> None, enchant_mods |-> None, explicit_mods |-> None,
     crafted_mods |-> None]

NoError == [type_ |-> "", what |-> ""]

\* What one arm of the key loop does: go on with the next key with the
\* locals updated, return an error, or panic.
Continue(st) == [kind |-> "next", st |-> st, err |-> NoError]
Fail(st, err) == [kind |-> "err", st |-> st, err |-> err]
Panic(st, msg) == [kind |-> "panic", st |-> st, err |-> [type_ |-> "panic", what |-> msg]]

\* check_duplicate!(key => var); the rest of the arm runs when var is None.
DuplicateField(key) == [type_ |-> "duplicate_field", what |-> key]

\* An arm of the shape: check_duplicate!(key => var); var = Some(value?).
SetOnce(st, key, var, r) ==
    IF st[var] # None THEN Fail(st, DuplicateField(key))
    ELSE IF ~r.ok THEN Fail(st, r.err)
    ELSE Continue([st EXCEPT ![var] = Some(r.value[1])])

MAX_RARITY == 3

\* RarityVisitor::visit_u64: the v-th variant of Rarity.
DeserializeRarity(v) ==
    LET variants == <<"Normal", "Magic", "Rare", "Unique">> IN
    IF v < Len(variants) THEN Ok(variants[v + 1])
    ELSE Err("invalid_value", "rarity index")

Prophecy == Category("Prophecy", "")
Currency == Category("Currency", "")

\* "id"
visit_id(st, value) == SetOnce(st, "id", "id", deserialize_nonempty_string(value))

\* "name"
visit_name(st, value) ==
    LET opt_name == deserialize_name(value).value[1] IN
    SetOnce(st, "name", "name",
            Ok(IF opt_name = None THEN None
               ELSE Some(remove_angle_bracket_tags(opt_name[1]))))

\* "typeLine"
visit_typeLine(st, value) ==
    LET base_ == deserialize_nonempty_string(value) IN
    SetOnce(st, "typeLine", "base",
            IF base_.ok THEN Ok(remove_angle_bracket_tags(base_.value[1])) ELSE base_)

\* "ilvl"
visit_ilvl(st, value) == SetOnce(st, "ilvl", "level", Ok(value))

\* "requirements"
visit_requirements(st, value) ==
    SetOnce(st, "requirements", "requirements", DeserializeRequirements(value))

\* "frameType": a rarity, or (above MAX_RARITY) an item kind, of which 8 is
\* the sealed prophecy.
visit_frameType(st, value) ==
    IF st.rarity # None THEN Fail(st, DuplicateField("frameType"))
    ELSE IF value > MAX_RARITY
         THEN Continue([st EXCEPT !.rarity = Some("Normal"),
                                  !.category = IF value = 8 THEN Some(QuasiTrue(Prophecy))
                                               ELSE @])
         ELSE SetOnce(st, "frameType", "rarity", DeserializeRarity(value))

\* "category": skipped (the loop continues without reading the value) when
\* frameType has already made the item a sealed prophecy.  A MapAccess over
\* a parsed JSON value, as serde_json::from_value gives, drops the unread
\* value with the next key.
visit_category(st, value) ==
    IF st.category # None /\ QuasiAsRef(st.category[1]) = Some(Prophecy)
    THEN Continue(st)
    ELSE SetOnce(st, "category", "category", DeserializeQuasiCategory(value))

\* "identified"
visit_identified(st, value) == SetOnce(st, "identified", "identified", Ok(value))

\* An arm of the shape: check_duplicate!(key => var);
\* var = Some(Self::deserialize_mods(&mut map, mod_type)?).
ModsArm(db, st, key, var, mod_type, texts) ==
    IF st[var] # None THEN Fail(st, DuplicateField(key))
    ELSE LET Decoded_(r) == IF ~r.ok THEN Panic(st, "mod values")
                             ELSE Continue([st EXCEPT ![var] = Some(r.mods)])
         IN Decoded_(deserialize_mods(db, mod_type, texts))

\* "utilityMods"
visit_utilityMods(db, st, value) ==
    ModsArm(db, st, "utilityMods", "flask_mods", "explicit", value)
\* "implicitMods"
visit_implicitMods(db, st, value) ==
    ModsArm(db, st, "implicitMods", "implicit_mods", "implicit", value)
\* "enchantMods"
visit_enchantMods(db, st, value) ==
    ModsArm(db, st, "enchantMods", "enchant_mods", "enchant", value)
\* "explicitMods"
visit_explicitMods(db, st, value) ==
    ModsArm(db, st, "explicitMods", "explicit_mods", "explicit", value)
\* "craftedMods"
visit_craftedMods(db, st, value) ==
    ModsArm(db, st, "craftedMods", "crafted_mods", "crafted", value)

\* "sockets"
visit_sockets(st, value) == SetOnce(st, "sockets", "sockets", DeserializeItemSockets(value))

\* "socketedItems": read and ignored.
visit_socketedItems(st, value) == Continue(st)

\* "corrupted"
visit_corrupted(st, value) == SetOnce(st, "corrupted", "corrupted", Ok(value))

\* "duplicated"
visit_duplicated(st, value) == SetOnce(st, "duplicated", "duplicated", Ok(value))

\* "elder"
visit_elder(st, is_elder) ==
    IF st.influence # None THEN Fail(st, DuplicateField("elder/shaper"))
    ELSE IF is_elder THEN Continue([st EXCEPT !.influence = Some(Some("Elder"))])
         ELSE Continue(st)

\* "shaper"
visit_shaper(st, is_shaped) ==
    IF st.influence # None THEN Fail(st, DuplicateField("elder/shaper"))
    ELSE IF is_shaped THEN Continue([st EXCEPT !.influence = Some(Some("Shaper"))])
         ELSE Continue(st)

\* Itertools::join(" ") of the trimmed lines
RECURSIVE JoinTrimmed(_)
JoinTrimmed(lines) ==
    IF lines = << >> THEN << >>
    ELSE IF Len(lines) = 1 THEN Trim(lines[1])
         ELSE Trim(lines[1]) \o <<" ">> \o JoinTrimmed(Tail(lines))

\* "flavourText"
visit_flavourText(st, lines) ==
    LET text == JoinTrimmed(lines) IN
    SetOnce(st, "flavourText", "flavour_text",
            Ok(IF text = << >> THEN None ELSE Some(text)))

\* One "if let Some(x) = props.remove(key)" block of the properties arms:
\* the value is unwrapped (a value-less property panics), a field already set
\* is a duplicate, and the text is parsed into the field.  acc carries the
\* arm's progress: kind, the locals, the remaining props and the error.
Pluck(acc, key, var, Parse(_)) ==
    IF acc.kind # "next" THEN acc
    ELSE LET Parsed(r, v) ==
                 IF ~v.ok THEN [acc EXCEPT !.kind = IF v.err.type_ = "panic" THEN "panic"
                                                    ELSE "err",
                                           !.props = r.props, !.err = v.err]
                 ELSE [acc EXCEPT !.st = [acc.st EXCEPT ![var] = Some(v.value[1])],
                                  !.props = r.props]
             Removed(r) ==
                 IF r.ret = None THEN acc
                 ELSE IF r.ret[1] = None
                      THEN [acc EXCEPT !.kind = "panic", !.props = r.props,
                                       !.err = [type_ |-> "panic", what |-> key]]
                 ELSE IF acc.st[var] # None
                      THEN [acc EXCEPT !.kind = "err", !.props = r.props,
                                       !.err = DuplicateField(key)]
                 ELSE Parsed(r, Parse(r.ret[1][1]))
         IN Removed(remove(acc.props, key))

ParseU32(s) == ParseUnsigned(s, 32)

\* "properties"
visit_properties(st, value) ==
    IF st.properties # None THEN Fail(st, DuplicateField("properties"))
    ELSE LET a0 == [kind |-> "next", st |-> st, err |-> NoError,
                    props |-> DeserializeProperties(value).value[1]]
             a1 == Pluck(a0, "Quality", "quality", DeserializeQuality)
             a2 == Pluck(a1, "Map Tier", "map_tier", ParseU32)
             a3 == Pluck(a2, "Item Quantity", "item_quantity", DeserializeQuality)
             a4 == Pluck(a3, "Item Rarity", "item_rarity", DeserializeQuality)
             a5 == Pluck(a4, "Monster Pack Size", "monster_pack_size", DeserializeQuality)
             a6 == Pluck(a5, "Level", "gem_level", ParseGemLevel)
             a7 == Pluck(a6, "Lasts %0 Seconds", "duration", ParseDuration)
             a8 == Pluck(a7, "Consumes %0 of %1 Charges on use", "charges_per_use", ParseU32)
             Plucked(a) ==
                 IF a.kind # "next" THEN [kind |-> a.kind, st |-> a.st, err |-> a.err]
                 ELSE Continue([a.st EXCEPT !.properties = Some(a.props)])
         IN Plucked(a8)

\* "additionalProperties": no duplicate check of the key itself.
visit_additionalProperties(st, value) ==
    LET a0 == [kind |-> "next", st |-> st, err |-> NoError,
               props |-> DeserializeProperties(value).value[1]]
        a1 == Pluck(a0, "Experience", "gem_xp", DeserializeExperience)
        Plucked(a) == [kind |-> a.kind, st |-> a.st, err |-> a.err]
    IN Plucked(a1)

\* The keys whose values are read and dropped.
IgnoredKeys == {"nextLevelRequirements", "verified", "support", "league", "lockedToCharacter"}

visit_ignored(st, value) == Continue(st)

\* Any other key goes to the extra map.
visit_other(st, key, value) == Continue([st EXCEPT !.extra = MapWith(@, key, value)])

\* The match on the key in the loop of visit_map.
visit_key(db, st, key, value) ==
    CASE key = "id" -> visit_id(st, value)
      [] key = "name" -> visit_name(st, value)
      [] key = "typeLine" -> visit_typeLine(st, value)
      [] key = "ilvl" -> visit_ilvl(st, value)
      [] key = "requirements" -> visit_requirements(st, value)
      [] key = "frameType" -> visit_frameType(st, value)
      [] key = "category" -> visit_category(st, value)
      [] key = "identified" -> visit_identified(st, value)
      [] key = "utilityMods" -> visit_utilityMods(db, st, value)
      [] key = "implicitMods" -> visit_implicitMods(db, st, value)
      [] key = "enchantMods" -> visit_enchantMods(db, st, value)
      [] key = "explicitMods" -> visit_explicitMods(db, st, value)
      [] key = "craftedMods" -> visit_craftedMods(db, st, value)
      [] key = "sockets" -> visit_sockets(st, value)
      [] key = "socketedItems" -> visit_socketedItems(st, value)
      [] key = "corrupted" -> visit_corrupted(st, value)
      [] key = "duplicated" -> visit_duplicated(st, value)
      [] key = "elder" -> visit_elder(st, value)
      [] key = "shaper" -> visit_shaper(st, value)
      [] key = "flavourText" -> visit_flavourText(st, value)
      [] key = "properties" -> visit_properties(st, value)
      [] key = "additionalProperties" -> visit_additionalProperties(st, value)
      [] key \in IgnoredKeys -> visit_ignored(st, value)
      [] OTHER -> visit_other(st, key, value)

\* Option::unwrap_or
UnwrapOr(opt, default) == IF opt = None THEN default ELSE opt[1]

MissingField(key) == [type_ |-> "missing_field", what |-> key]

\* The details block with the Map branch tried before the identified flag.
Details_MapBeforeIdentified(st, category) ==
    LET identified == UnwrapOr(st.identified, TRUE)
        has_gear_mods == \/ st.implicit_mods # None \/ st.enchant_mods # None
                         \/ st.explicit_mods # None \/ st.crafted_mods # None
    IN IF ~identified /\ st.map_tier = None THEN Some([variant |-> "Unidentified"])
       ELSE IF st.map_tier # None
       THEN Some([variant |-> "Map", tier |-> st.map_tier[1],
                  item_quantity |-> UnwrapOr(st.item_quantity, 0),
                  item_rarity |-> UnwrapOr(st.item_rarity, 0),
                  monster_pack_size |-> UnwrapOr(st.monster_pack_size, 0),
                  mods |-> UnwrapOr(st.explicit_mods, << >>)])
       ELSE IF st.gem_level # None /\ st.gem_xp # None
       THEN Some([variant |-> "Gem", level |-> st.gem_level[1], experience |-> st.gem_xp[1]])
       ELSE IF st.duration # None /\ st.charges_per_use # None /\ st.flask_mods # None
       THEN Some([variant |-> "Flask", duration |-> st.duration[1],
                  charges_per_use |-> st.charges_per_use[1], mods |-> st.flask_mods[1]])
       ELSE IF has_gear_mods /\ QuasiAsRef(category) # Some(Currency)
       THEN Some([variant |-> "Gear",
                  implicit |-> UnwrapOr(st.implicit_mods, << >>),
                  enchants |-> UnwrapOr(st.enchant_mods, << >>),
                  explicit |-> UnwrapOr(st.explicit_mods, << >>),
                  crafted |-> UnwrapOr(st.crafted_mods, << >>)])
       ELSE None

\* The details block without the exclusion of currencies from Gear.
Details_CurrencyIsGear(st, category) ==
    LET identified == UnwrapOr(st.identified, TRUE)
        has_gear_mods == \/ st.implicit_mods # None \/ st.enchant_mods # None
                         \/ st.explicit_mods # None \/ st.crafted_mods # None
    IN IF ~identified THEN Some([variant |-> "Unidentified"])
       ELSE IF st.map_tier # None
       THEN Some([variant |-> "Map", tier |-> st.map_tier[1],
                  item_quantity |-> UnwrapOr(st.item_quantity, 0),
                  item_rarity |-> UnwrapOr(st.item_rarity, 0),
                  monster_pack_size |-> UnwrapOr(st.monster_pack_size, 0),
                  mods |-> UnwrapOr(st.explicit_mods, << >>)])
       ELSE IF st.gem_level # None /\ st.gem_xp # None
       THEN Some([variant |-> "Gem", level |-> st.gem_level[1], experience |-> st.gem_xp[1]])
       ELSE IF st.duration # None /\ st.charges_per_use # None /\ st.flask_mods # None
       THEN Some([variant |-> "Flask", duration |-> st.duration[1],
                  charges_per_use |-> st.charges_per_use[1], mods |-> st.flask_mods[1]])
       ELSE IF has_gear_mods
       THEN Some([variant |-> "Gear",
                  implicit |-> UnwrapOr(st.implicit_mods, << >>),
                  enchants |-> UnwrapOr(st.enchant_mods, << >>),
                  explicit |-> UnwrapOr(st.explicit_mods, << >>),
                  crafted |-> UnwrapOr(st.crafted_mods, << >>)])
       ELSE None

\* The ItemDetails the locals make (the "details" block of visit_map).
Details(st, category) ==
    LET identified == UnwrapOr(st.identified, TRUE)
        has_gear_mods == \/ st.implicit_mods # None \/ st.enchant_mods # None
                         \/ st.explicit_mods # None \/ st.crafted_mods # None
    IN IF ~identified THEN Some([variant |-> "Unidentified"])
       ELSE IF st.map_tier # None
       THEN Some([variant |-> "Map", tier |-> st.map_tier[1],
                  item_quantity |-> UnwrapOr(st.item_quantity, 0),
                  item_rarity |-> UnwrapOr(st.item_rarity, 0),
                  monster_pack_size |-> UnwrapOr(st.monster_pack_size, 0),
                  mods |-> UnwrapOr(st.explicit_mods, << >>)])
       ELSE IF st.gem_level # None /\ st.gem_xp # None
       THEN Some([variant |-> "Gem", level |-> st.gem_level[1], experience |-> st.gem_xp[1]])
       ELSE IF st.duration # None /\ st.charges_per_use # None /\ st.flask_mods # None
       THEN Some([variant |-> "Flask", duration |-> st.duration[1],
                  charges_per_use |-> st.charges_per_use[1], mods |-> st.flask_mods[1]])
       ELSE IF has_gear_mods /\ QuasiAsRef(category) # Some(Currency)
       THEN Some([variant |-> "Gear",
                  implicit |-> UnwrapOr(st.implicit_mods, << >>),
                  enchants |-> UnwrapOr(st.enchant_mods, << >>),
                  explicit |-> UnwrapOr(st.explicit_mods, << >>),
                  crafted |-> UnwrapOr(st.crafted_mods, << >>)])
       ELSE None

NoItem == << >>

\* What visit_map returns once the map has no more keys.
Finish(st) ==
    CASE st.id = None -> [kind |-> "Err", err |-> MissingField("id"), item |-> NoItem]
      [] st.name = None -> [kind |-> "Err", err |-> MissingField("name"), item |-> NoItem]
      [] st.base = None -> [kind |-> "Err", err |-> MissingField("typeLine"), item |-> NoItem]
      [] st.level = None -> [kind |-> "Err", err |-> MissingField("ilvl"), item |-> NoItem]
      [] st.category = None -> [kind |-> "Err", err |-> MissingField("category"), item |-> NoItem]
      [] st.rarity = None -> [kind |-> "Err", err |-> MissingField("frameType"), item |-> NoItem]
      [] OTHER ->
           LET fix == st.rarity[1] = "Magic" /\ st.name[1] = None /\ st.base[1] # << >>
               name == IF fix THEN Some(st.base[1]) ELSE st.name[1]
               base == IF fix THEN << >> ELSE st.base[1]
               category == st.category[1]
           IN [kind |-> "Ok", err |-> NoError,
               item |-> << [id |-> st.id[1], name |-> name, base |-> base,
                           level |-> st.level[1], category |-> category,
                           rarity |-> st.rarity[1],
                           quality |-> UnwrapOr(st.quality, 0),
                           properties |-> UnwrapOr(st.properties, PropertiesNew),
                           details |-> Details(st, category),
                           sockets |-> UnwrapOr(st.sockets,
                                          [abyss_count |-> 0, regular_groups |-> << >>]),
                           requirements |-> UnwrapOr(st.requirements, << >>),
                           corrupted |-> UnwrapOr(st.corrupted, FALSE),
                           influence |-> UnwrapOr(st.influence, None),
                           duplicated |-> UnwrapOr(st.duplicated, FALSE),
                           flavour_text |-> UnwrapOr(st.flavour_text, None),
                           extra |-> st.extra] >>]

\* ItemVisitor::visit_map on the key/value pairs of a JSON object, in the
\* order the map yields them.
RECURSIVE VisitFrom(_, _, _)
VisitFrom(db, st, pairs) ==
    LET After(r) ==
            IF r.kind = "next" THEN VisitFrom(db, r.st, Tail(pairs))
            ELSE [kind |-> IF r.kind = "err" THEN "Err" ELSE "Panic", err |-> r.err,
                  item |-> NoItem]
    IN IF pairs = << >> THEN Finish(st)
       ELSE After(visit_key(db, st, Head(pairs).key, Head(pairs).value))

visit_map(db, pairs) == VisitFrom(db, VisitorNew, pairs)

\* ============================================================ stash decoder
\* str::split_whitespace
RECURSIVE SplitWhitespace(_)
SplitWhitespace(s) ==
    LET Words(t) ==
            IF t = << >> THEN << >>
            ELSE LET n == CHOOSE k \in 1..Len(t) :
                             /\ \A j \in 1..k : ~IsSpace(t[j])
                             /\ (k = Len(t) \/ IsSpace(t[k + 1]))
                 IN << SubSeq(t, 1, n) >> \o SplitWhitespace(Drop(t, n))
    IN Words(TrimLeft(s))

\* str::contains
Contains(s, p) == \E i \in 0..(Len(s) - Len(p)) : StartsWith(Drop(s, i), p)

\* str::trim_left_matches
RECURSIVE TrimLeftMatches(_, _)
TrimLeftMatches(s, p) ==
    IF p # << >> /\ StartsWith(s, p) THEN TrimLeftMatches(Drop(s, Len(p)), p) ELSE s

\* ---------------------------------------------------------------- price
\* The names serde gives the variants of Currency.
CurrencyNames ==
    { <<"a", "l", "t">>, <<"f", "u", "s", "e">>, <<"a", "l", "c", "h">>,
      <<"s", "i", "l", "v", "e", "r">>, <<"g", "c", "p">>, <<"e", "x", "a">>,
      <<"c", "h", "r", "o", "m">>, <<"j", "e", "w">>, <<"c", "h", "a", "n", "c", "e">>,
      <<"c", "h", "a", "o", "s">>, <<"c", "h", "i", "s", "e", "l">>,
      <<"s", "c", "o", "u", "r">>, <<"b", "l", "e", "s", "s", "e", "d">>,
      <<"r", "e", "g", "r", "e", "t">>, <<"r", "e", "g", "a", "l">>,
      <<"d", "i", "v", "i", "n", "e">>, <<"v", "a", "a", "l">> }

\* price::parse_amount
parse_amount(s) ==
    LET Amount(u, amount) == IF u.ok THEN u ELSE ParseF64(amount)
        Quotient(n, d) ==
            IF n.ok /\ d.ok
            THEN [ok |-> TRUE,
                  value |-> IF d.value.num < 0
                            THEN Fraction(-(n.value.num * d.value.den),
                                          -(n.value.den * d.value.num))
                            ELSE Fraction(n.value.num * d.value.den,
                                          n.value.den * d.value.num)]
            ELSE [ok |-> FALSE, value |-> Fraction(0, 1)]
        OfNums(nums) ==
            CASE Len(nums) = 1 -> Amount(ParseU64(Trim(nums[1])), Trim(nums[1]))
              [] Len(nums) = 2 -> Quotient(ParseF64(Trim(nums[1])), ParseF64(Trim(nums[2])))
              [] OTHER -> [ok |-> FALSE, value |-> Fraction(0, 1)]
    IN OfNums(SplitOn(s, "/"))

\* Price::deserialize (PriceVisitor::visit_str)
DeserializePrice(v) ==
    LET Priced(amount, currency) ==
            IF ~amount.ok THEN Err("custom", "cannot parse price amount")
            ELSE Ok([amount |-> amount.value,
                     currency |-> IF currency \in CurrencyNames
                                  THEN QuasiTrue(currency)
                                  ELSE QuasiSubstitute(currency)])
        OfParts(parts) ==
            IF Len(parts) # 2 THEN Err("invalid_value", "item price")
            ELSE Priced(parse_amount(parts[1]), parts[2])
    IN IF v = << >> THEN Err("invalid_length", "non-empty string")
       ELSE OfParts(SplitWhitespace(v))

\* ---------------------------------------------------------------- label
LabelOf(variant, value) == [variant |-> variant, value |-> value]

EXACT_PRICE_PREFIX == <<"~", "p", "r", "i", "c", "e">>
NEGOTIABLE_PRICE_PREFIX == <<"~", "b", "/", "o">>

\* SEP_RE.find, \s+[/|]: the offset the leftmost match starts at, or None.
SepFind(v) ==
    LET starts == { i \in 1..Len(v) :
                      \E j \in (i + 1)..Len(v) :
                          /\ \A k \in i..(j - 1) : IsSpace(v[k])
                          /\ v[j] \in {"/", "|"} }
    IN IF starts = {} THEN None
       ELSE Some((CHOOSE i \in starts : \A j \in starts : i <= j) - 1)

\* visit_str as it would be if the separator cut were made on every string.
DeserializeLabel_CutsAlways(input) ==
    LET Cut(m) == IF m # None THEN TrimRight(SubSeq(input, 1, m[1])) ELSE input
        Priced(variant, price) ==
            IF price.ok THEN Ok(LabelOf(variant, price.value[1])) ELSE price
        Of(v) ==
            IF StartsWith(v, EXACT_PRICE_PREFIX)
            THEN Priced("ExactPrice",
                        DeserializePrice(TrimLeft(TrimLeftMatches(v, EXACT_PRICE_PREFIX))))
            ELSE IF StartsWith(v, NEGOTIABLE_PRICE_PREFIX)
            THEN Priced("NegotiablePrice",
                        DeserializePrice(TrimLeft(TrimLeftMatches(v, NEGOTIABLE_PRICE_PREFIX))))
            ELSE IF StartsWith(v, <<"~">>) THEN Err("custom", "unknown label tag")
            ELSE Ok(LabelOf("Cosmetic", v))
    IN IF input = << >> THEN Ok(LabelOf("Cosmetic", << >>))
       ELSE Of(Cut(SepFind(input)))

\* Label::deserialize (LabelVisitor::visit_str)
DeserializeLabel(input) ==
    LET Cut(m) == IF StartsWith(input, <<"~">>) /\ m # None
                  THEN TrimRight(SubSeq(input, 1, m[1])) ELSE input
        Priced(variant, price) ==
            IF price.ok THEN Ok(LabelOf(variant, price.value[1])) ELSE price
        Of(v) ==
            IF StartsWith(v, EXACT_PRICE_PREFIX)
            THEN Priced("ExactPrice",
                        DeserializePrice(TrimLeft(TrimLeftMatches(v, EXACT_PRICE_PREFIX))))
            ELSE IF StartsWith(v, NEGOTIABLE_PRICE_PREFIX)
            THEN Priced("NegotiablePrice",
                        DeserializePrice(TrimLeft(TrimLeftMatches(v, NEGOTIABLE_PRICE_PREFIX))))
            ELSE IF StartsWith(v, <<"~">>) THEN Err("custom", "unknown label tag")
            ELSE Ok(LabelOf("Cosmetic", v))
    IN IF input = << >> THEN Ok(LabelOf("Cosmetic", << >>))
       ELSE Of(Cut(SepFind(input)))

\* --------------------------------------------------------------- league
COMMON_WORDS ==
    { <<"S", "t", "a", "n", "d", "a", "r", "d">>, <<"H", "a", "r", "d", "c", "o", "r", "e">>,
      <<"H", "C">>, <<"S", "S", "F">> }

UpperLetters == {"A", "B", "C", "D", "E", "F", "G", "H", "I", "J", "K", "L", "M",
                 "N", "O", "P", "Q", "R", "S", "T", "U", "V", "W", "X", "Y", "Z"}

LeagueOf(temporary, hardcore, ssf, season) ==
    [temporary |-> temporary, hardcore |-> hardcore, ssf |-> ssf, season |-> season]

\* League::default
LeagueDefault == LeagueOf(FALSE, FALSE, FALSE, None)

\* The names matched before the flags are read off the name.
PermanentNames ==
    { <<"S", "t", "a", "n", "d", "a", "r", "d">>,
      <<"H", "a", "r", "d", "c", "o", "r", "e">>,
      <<"S", "S", "F", " ", "S", "t", "a", "n", "d", "a", "r", "d">>,
      <<"S", "S", "F", " ", "H", "a", "r", "d", "c", "o", "r", "e">> }

\* League::deserialize (LeagueVisitor::visit_str)
DeserializeLeague(v) ==
    LET Valid(w) ==
            \/ w \in COMMON_WORDS
            \/ /\ Len(w) > 1
               /\ w[1] \in UpperLetters
               /\ \A i \in 2..Len(w) : w[i] \in Letters \ UpperLetters
        Season(words) ==
            IF Flatten(words) = << >> THEN None ELSE Some(Flatten(words))
        Named(words) ==
            LET permanent == v \in { <<"S", "t", "a", "n", "d", "a", "r", "d">>,
                                     <<"H", "a", "r", "d", "c", "o", "r", "e">>,
                                     <<"S", "S", "F", " ", "S", "t", "a", "n", "d", "a", "r", "d">>,
                                     <<"S", "S", "F", " ", "H", "a", "r", "d", "c", "o", "r", "e">> }
            IN IF \E i \in 1..Len(words) : ~Valid(words[i])
               THEN Err("invalid_value", "string of capitalized words or acronyms")
               ELSE Ok(LeagueOf(~permanent,
                                \/ Contains(v, <<"H", "a", "r", "d", "c", "o", "r", "e">>)
                                \/ (~permanent /\ Contains(v, <<"H", "C">>)),
                                Contains(v, <<"S", "S", "F">>),
                                Season(SelectSeq(words, LAMBDA w : w \notin COMMON_WORDS))))
    IN IF v = << >> THEN Err("invalid_length", "non-empty string")
       ELSE Named(SplitWhitespace(v))

\* from_str as it would be if only the word Hardcore made a league hardcore.
LeagueFromStr_HardcoreWordOnly(s) ==
    LET Valid(w) ==
            \/ w \in COMMON_WORDS
            \/ /\ Len(w) > 1
               /\ w[1] \in UpperLetters
               /\ \A i \in 2..Len(w) : w[i] \in Letters \ UpperLetters
        Season(words) ==
            IF Flatten(words) = << >> THEN None ELSE Some(Flatten(words))
        Named(words) ==
            IF \E i \in 1..Len(words) : ~Valid(words[i])
            THEN [ok |-> FALSE, err |-> "Malformed", league |-> None]
            ELSE [ok |-> TRUE, err |-> "",
                  league |-> Some(LeagueOf(
                      s \notin PermanentNames,
                      Contains(s, <<"H", "a", "r", "d", "c", "o", "r", "e">>),
                      Contains(s, <<"S", "S", "F">>),
                      Season(SelectSeq(words, LAMBDA w : w \notin COMMON_WORDS))))]
    IN IF s = << >> THEN [ok |-> FALSE, err |-> "Empty", league |-> None]
       ELSE Named(SplitWhitespace(s))

\* League::from_str
LeagueFromStr(s) ==
    LET Valid(w) ==
            \/ w \in COMMON_WORDS
            \/ /\ Len(w) > 1
               /\ w[1] \in UpperLetters
               /\ \A i \in 2..Len(w) : w[i] \in Letters \ UpperLetters
        Season(words) ==
            IF Flatten(words) = << >> THEN None ELSE Some(Flatten(words))
        Named(words) ==
            IF \E i \in 1..Len(words) : ~Valid(words[i])
            THEN [ok |-> FALSE, err |-> "Malformed", league |-> None]
            ELSE [ok |-> TRUE, err |-> "",
                  league |-> Some(LeagueOf(
                      s \notin PermanentNames,
                      \/ Contains(s, <<"H", "a", "r", "d", "c", "o", "r", "e">>)
                      \/ (s \notin PermanentNames /\ Contains(s, <<"H", "C">>)),
                      Contains(s, <<"S", "S", "F">>),
                      Season(SelectSeq(words, LAMBDA w : w \notin COMMON_WORDS))))]
    IN IF s = << >> THEN [ok |-> FALSE, err |-> "Empty", league |-> None]
       ELSE Named(SplitWhitespace(s))

\* ---------------------------------------------------------- stashed item
\* The keys StashedItemVisitor::visit_map keeps for itself; every other key
\* is passed through to the Item deserializer.
StashedItemKeys == {"note", "x", "y", "w", "h", "inventoryId"}

\* StashedItem::deserialize (StashedItemVisitor::visit_map) on an object
\* that comes out of a HashMap, so with each key once.
DeserializeStashedItem(db, doc) ==
    LET Has(key) == \E i \in 1..Len(doc) : doc[i].key = key
        Get(key) == doc[CHOOSE i \in 1..Len(doc) : doc[i].key = key].value
        Labelled(r) == IF r.ok THEN Ok(Some(r.value[1])) ELSE r
        Built(label, decoded) ==
            CASE ~label.ok -> [kind |-> "Err", err |-> label.err, item |-> NoItem]
              [] decoded.kind = "Panic" -> decoded
              [] decoded.kind = "Err" ->
                     [kind |-> "Err",
                      err |-> [type_ |-> "custom", what |-> "cannot deserialize stashed item"],
                      item |-> NoItem]
              [] ~Has("x") -> [kind |-> "Err", err |-> MissingField("x"), item |-> NoItem]
              [] ~Has("y") -> [kind |-> "Err", err |-> MissingField("y"), item |-> NoItem]
              [] ~Has("w") -> [kind |-> "Err", err |-> MissingField("w"), item |-> NoItem]
              [] ~Has("h") -> [kind |-> "Err", err |-> MissingField("h"), item |-> NoItem]
              [] OTHER ->
                     [kind |-> "Ok", err |-> NoError,
                      item |-> << [item |-> decoded.item[1], label |-> label.value[1],
                                  x |-> Get("x"), y |-> Get("y"),
                                  width |-> Get("w"), height |-> Get("h")] >>]
    IN Built(IF Has("note") THEN Labelled(DeserializeLabel(Get("note"))) ELSE Ok(None),
             visit_map(db, SelectSeq(doc, LAMBDA p : p.key \notin StashedItemKeys)))

\* Vec::<StashedItem>::deserialize: the elements in order, the first error
\* ends it.
DeserializeStashedItems(db, docs) ==
    LET All(rs) ==
            IF \E i \in 1..Len(rs) : rs[i].kind # "Ok"
            THEN LET bad == CHOOSE i \in 1..Len(rs) :
                               /\ rs[i].kind # "Ok"
                               /\ \A j \in 1..(i - 1) : rs[j].kind = "Ok"
                 IN [kind |-> rs[bad].kind, err |-> rs[bad].err, items |-> << >>]
            ELSE [kind |-> "Ok", err |-> NoError,
                  items |-> [i \in 1..Len(rs) |-> rs[i].item[1]]]
    IN All(Vec([i \in 1..Len(docs) |-> DeserializeStashedItem(db, docs[i])]))

\* ---------------------------------------------------------- stash visitor
\* The locals of StashVisitor::visit_map, all None before the first key.
StashVisitorNew ==
    [id |-> None, league |-> None, label |-> None, type_ |-> None, account |-> None,
     last_character |-> None, items |-> None]

\* The names serde gives the variants of StashType.
StashTypes == {"NormalStash", "PremiumStash", "QuadStash", "EssenceStash",
               "CurrencyStash", "DivinationCardStash", "MapStash"}

\* Option::<T>::deserialize: null is None, anything else goes to T.
DeserializeOption(value, r) == IF value = None THEN Ok(None) ELSE
                               IF r.ok THEN Ok(Some(r.value[1])) ELSE r

\* The arms of the key loop of StashVisitor::visit_map other than "items".
stash_visit_field(st, key, value) ==
    CASE key = "id" -> SetOnce(st, "id", "id", Ok(value))
      [] key = "stash" ->
             SetOnce(st, "stash", "label",
                     DeserializeOption(value, DeserializeLabel(UnwrapOr(value, << >>))))
      [] key = "stashType" ->
             SetOnce(st, "stashType", "type_",
                     IF value \in StashTypes THEN Ok(value)
                     ELSE Err("unknown_variant", value))
      [] key = "accountName" -> SetOnce(st, "accountName", "account", Ok(value))
      [] key = "lastCharacterName" ->
             SetOnce(st, "lastCharacterName", "last_character", Ok(value))
      [] OTHER -> Continue(st)

\* The league names an item document carries under "league".
LeaguesOf(doc) == { doc[k].value : k \in { j \in DOMAIN doc : doc[j].key = "league" } }

\* The "items" arm: the league is plucked from the items, then the items
\* are deserialized as one vector.
stash_visit_items(db, st, docs) ==
    LET leagues == UNION { LeaguesOf(docs[i]) : i \in 1..Len(docs) }
        Stored(league, stashed) ==
            CASE ~league.ok -> Fail(st, league.err)
              [] stashed.kind = "Panic" -> Panic(st, stashed.err.what)
              [] stashed.kind = "Err" ->
                     Fail(st, [type_ |-> "custom", what |-> "cannot deserialize stashed items"])
              [] OTHER -> Continue([st EXCEPT !.league = Some(league.value[1]),
                                            !.items = Some(stashed.items)])
    IN IF Cardinality(leagues) > 1
       THEN Fail(st, [type_ |-> "custom", what |-> "items from multiple leagues"])
       ELSE Stored(DeserializeLeague(IF leagues = {} THEN <<"S", "t", "a", "n", "d", "a", "r", "d">>
                                     ELSE CHOOSE l \in leagues : TRUE),
                   DeserializeStashedItems(db, docs))

NoStash == << >>

\* What StashVisitor::visit_map returns once the map has no more keys.
StashFinish(st) ==
    CASE st.id = None -> [kind |-> "Err", err |-> MissingField("id"), stash |-> NoStash]
      [] st.label = None -> [kind |-> "Err", err |-> MissingField("stash"), stash |-> NoStash]
      [] st.type_ = None -> [kind |-> "Err", err |-> MissingField("stashType"), stash |-> NoStash]
      [] st.account = None ->
             [kind |-> "Err", err |-> MissingField("accountName"), stash |-> NoStash]
      [] OTHER ->
             [kind |-> "Ok", err |-> NoError,
              stash |-> << [id |-> st.id[1],
                           league |-> UnwrapOr(st.league, LeagueDefault),
                           type_ |-> st.type_[1],
                           last_character |-> UnwrapOr(st.last_character, None),
                           items |-> UnwrapOr(st.items, << >>),
                           label |-> UnwrapOr(st.label[1], LabelOf("Empty", << >>)),
                           account |-> UnwrapOr(st.account[1], << >>)] >>]

\* ------------------------------------------------------------------ state
VARIABLES
    mod_data,       \* the generated by_type_and_id table (data/mods/*.json)
    prefix_lines,   \* the lines of mod-text-prefixes.txt
    ITEM_MODS,      \* the lazy static: None until first use, then Some(Database)
    last            \* the last call made on the database and what it returned

dbvars == << mod_data, prefix_lines, ITEM_MODS, last >>

VARIABLES
    read,       \* the values visit_map has taken from the map so far, per key
    visitor,    \* the locals of visit_map
    outcome     \* Pending while the key loop runs, then what visit_map returned

decvars == << read, visitor, outcome >>

VARIABLES
    stash_read,     \* what StashVisitor::visit_map has taken from the map so far
    stash_visitor,  \* the locals of StashVisitor::visit_map
    stash_outcome   \* Pending while the key loop runs, then what it returned

stashvars == << stash_read, stash_visitor, stash_outcome >>

StashPending == [kind |-> "Pending", err |-> NoError, stash |-> NoStash]

\* The keys of the stash documents.
StashKeys == {"id", "stash", "stashType", "accountName", "lastCharacterName",
              "items", "public", "league"}

\* Nothing has been read from the stash's map.
StashNothingRead == [count |-> 0, values |-> [k \in StashKeys |-> << >>]]

\* No stash is being decoded.
StashIdle ==
    /\ stash_read = StashNothingRead
    /\ stash_visitor = StashVisitorNew
    /\ stash_outcome = StashPending

VARIABLES
    call        \* the decoder last run on a value of its own: input and result

\* No decoder has been run.
NoDecode == [op |-> "none"]

VARIABLES
    once,       \* the state of the Once that guards the lazy static ITEM_MODS
    threads,    \* per thread: where it is, its call, what it is building, what it saw
    builds      \* how many times Database::new has been entered

lazyvars == << once, threads, builds >>

\* The threads that use the database.
MaxThreads == 3
Threads == 1..MaxThreads

\* A thread that is not in a call.
ThreadIdle == [pc |-> "idle", op |-> "none", building |-> None, seen |-> None, calls |-> 0]

\* No thread has touched the lazy static.
LazyIdle ==
    /\ once = "Incomplete"
    /\ threads = [t \in Threads |-> ThreadIdle]
    /\ builds = 0

VARIABLES
    container,  \* a Properties container that mutators are called on
    prop_call   \* the last mutator call: its arguments, the container before, the result

propvars == << container, prop_call >>

\* No mutator has been called.
NoPropertiesCall ==
    [op |-> "none", key |-> "", value |-> None, before |-> PropertiesNew, ret |-> None]

PropertiesIdle == container = PropertiesNew /\ prop_call = NoPropertiesCall

VARIABLES
    unfold,         \* stream::unfold: Ready(state), Processing(the request) or Empty
    flatten_next,   \* Flatten: the page being drained, if any
    requests,       \* the change ids the requests made so far carried
    pages,          \* the responses received so far
    yielded,        \* what the consumer of the stream has been given, in order
    ended           \* the stream has returned None

streamvars == << unfold, flatten_next, requests, pages, yielded, ended >>

\* Stashes::all before it is polled.
StreamIdle ==
    /\ unfold = Unfold_Ready(State_Start(None))
    /\ flatten_next = None
    /\ requests = << >>
    /\ pages = << >>
    /\ yielded = << >>
    /\ ended = FALSE

Pending == [kind |-> "Pending", err |-> NoError, item |-> NoItem]

\* The keys of the item documents.
ItemKeys ==
    {"id", "name", "typeLine", "ilvl", "requirements", "frameType", "category",
     "identified", "utilityMods", "implicitMods", "enchantMods", "explicitMods",
     "craftedMods", "sockets", "socketedItems", "corrupted", "duplicated", "elder",
     "shaper", "flavourText", "properties", "additionalProperties",
     "nextLevelRequirements", "verified", "support", "league", "lockedToCharacter",
     "x"}

\* Nothing has been read from the map.
NothingRead == [count |-> 0, values |-> [k \in ItemKeys |-> << >>]]

\* No item is being decoded.
DecoderIdle == read = NothingRead /\ visitor = VisitorNew /\ outcome = Pending


\* ------------------------------------------------------------------ inputs
\* The mod types the drawn data files hold templates for.
DataModTypes == {"explicit", "implicit"}

TemplateTexts == StringsOver(TemplateChars, 1, MaxTemplateLen)
PrefixTexts == StringsOver(TemplateChars, 1, MaxPrefixLen)
ModTexts == StringsOver(TextChars, 0, MaxTextLen)

\* Lists of raw {type, text} records; the record at index i gets number i.
RawRecordLists ==
    UNION { [1..n -> [type_ : DataModTypes, text : TemplateTexts]] : n \in 0..MaxTemplates }

PrefixLists == UNION { [1..n -> PrefixTexts] : n \in 0..MaxPrefixes }

\* The by_type_and_id table the records make.
TableOf(raw) ==
    LET infos == [i \in 1..Len(raw) |-> ModInfo(raw[i].type_, i, raw[i].text)]
        present == { raw[i].type_ : i \in 1..Len(raw) }
    IN [mt \in present |-> SelectSeq(infos, LAMBDA mi : mi.id.type_ = mt)]

\* Lists of mod texts, as the mod arrays of an item hold them.
ModTextLists == UNION { [1..n -> ModTexts] : n \in 0..MaxMods }

NoCall == [op |-> "none", mod_type |-> "", texts |-> << >>, matched |-> << >>,
           kinds |-> << >>, ok |-> TRUE, mods |-> << >>, n |-> 0, infos |-> << >>]

DbInit ==
    /\ \E raw \in RawRecordLists : mod_data = TableOf(raw)
    /\ prefix_lines \in PrefixLists
    /\ ITEM_MODS = None
    /\ last = NoCall
    /\ DecoderIdle
    /\ StashIdle
    /\ call = NoDecode
    /\ LazyIdle
    /\ PropertiesIdle
    /\ StreamIdle

\* Dereferencing the lazy static builds the database on first use.
Deref(cell) == IF cell = None THEN DatabaseNew(mod_data, prefix_lines) ELSE cell[1]

\* ----------------------------------------------------------------- actions
\* database::initialize()
initialize ==
    /\ last.op = "none"
    /\ ITEM_MODS' = Some(Deref(ITEM_MODS))
    /\ last' = [NoCall EXCEPT !.op = "initialize"]
    /\ UNCHANGED << mod_data, prefix_lines >>
    /\ UNCHANGED << decvars, stashvars, call, lazyvars, propvars, streamvars >>

\* ItemVisitor::deserialize_mods(map, mod_type) on an array of mod texts:
\* each text goes through Mod::new, which resolves it against ITEM_MODS (the
\* database the call works on is the one the dereference leaves behind).
\* matched and kinds record, per text, what lookup_all and resolve returned.
DeserializeMods ==
    /\ last.op = "none"
    /\ ITEM_MODS' = Some(Deref(ITEM_MODS))
    /\ \E mt \in ModTypes, texts \in ModTextLists :
          LET db == ITEM_MODS'[1]
              r == deserialize_mods(db, mt, texts)
          IN last' = [NoCall EXCEPT
                         !.op = "deserialize_mods", !.mod_type = mt, !.texts = texts,
                         !.matched = Vec([i \in 1..Len(texts) |->
                                        IF mt \in DOMAIN db.matchers_by_type
                                        THEN lookup_all(db.matchers_by_type[mt], texts[i])
                                        ELSE << >>]),
                         !.kinds = Vec([i \in 1..Len(texts) |-> resolve(db, mt, texts[i]).kind]),
                         !.ok = r.ok,
                         !.mods = r.mods]
    /\ UNCHANGED << mod_data, prefix_lines >>
    /\ UNCHANGED << decvars, stashvars, call, lazyvars, propvars, streamvars >>

\* ITEM_MODS.len()
Len_ ==
    /\ last.op = "none"
    /\ ITEM_MODS' = Some(Deref(ITEM_MODS))
    /\ last' = [NoCall EXCEPT !.op = "len", !.n = len(ITEM_MODS'[1])]
    /\ UNCHANGED << mod_data, prefix_lines >>
    /\ UNCHANGED << decvars, stashvars, call, lazyvars, propvars, streamvars >>

\* ITEM_MODS.iter().collect()
Iter_ ==
    /\ last.op = "none"
    /\ ITEM_MODS' = Some(Deref(ITEM_MODS))
    /\ last' = [NoCall EXCEPT !.op = "iter", !.infos = iter(ITEM_MODS'[1])]
    /\ UNCHANGED << mod_data, prefix_lines >>
    /\ UNCHANGED << decvars, stashvars, call, lazyvars, propvars, streamvars >>

\* The caller is done with what the call returned and may call again.
Return_ ==
    /\ last.op # "none"
    /\ last' = NoCall
    /\ UNCHANGED << mod_data, prefix_lines, ITEM_MODS >>
    /\ UNCHANGED << decvars, stashvars, call, lazyvars, propvars, streamvars >>

\* ----------------------------------------------------------- item inputs
\* The mod database the items are decoded against: one explicit template.
ItemModData == TableOf(<< [type_ |-> "explicit", text |-> <<"#", "a">>] >>)
ItemPrefixLines == << >>

Pair(key, value) == [key |-> key, value |-> value]
Property(name, value) == [name |-> name, value |-> value]

\* The keys every document starts with, in this order.
HeaderKeys == <<"id", "name", "typeLine", "ilvl">>

IdValues == { <<"i">> }
NameValues == { << >>, <<"N">> }
TypeLineValues == { <<"B">>, << >>, <<"<", "<", "a", ":", "b", ">", ">">>,
                    <<"<", "<", "a", ":", "b", ">", ">", "B">> }
IlvlValues == { 1 }
FrameTypeValues == { 1, 4, 8 }
CategoryValues == { JsonMap(<< [key |-> "currency", subcats |-> << >>] >>),
                    JsonMap(<< [key |-> "accessories", subcats |-> <<"ring">>] >>),
                    JsonMap(<< [key |-> "accessories", subcats |-> <<"trinket">>] >>) }
PropertiesValues ==
    { << >>,
      << Property("Map Tier", Some(<<"1">>)) >>,
      << Property("Map Tier", None) >>,
      << Property("Map Tier", Some(<<"a">>)) >>,
      << Property("Level", Some(<<"1">>)) >>,
      << Property("Lasts %0 Seconds", Some(<<"1">>)) >>,
      << Property("Lasts %0 Seconds", Some(<<"1">>)),
         Property("Consumes %0 of %1 Charges on use", Some(<<"1">>)) >> }
AdditionalPropertiesValues ==
    { << >>, << Property("Experience", Some(<<"1", "/", "2">>)) >>,
      << Property("Experience", Some(<<"2", "/", "1">>)) >> }
RequirementsValues == { << Property("Level", Some(<<"1">>)) >> }
SocketsValues == { << [group |-> 0, sColour |-> "R"] >> }
FlavourTextValues == { << <<"f">> >> }
OtherKeys == { "x" }

\* The values drawn for each key.
ValuesOf(key) ==
    CASE key = "id" -> IdValues
      [] key = "name" -> NameValues
      [] key = "typeLine" -> TypeLineValues
      [] key = "ilvl" -> IlvlValues
      [] key = "frameType" -> FrameTypeValues
      [] key = "category" -> CategoryValues
      [] key \in {"identified", "elder", "shaper"} -> BOOLEAN
      [] key \in {"corrupted", "duplicated"} -> { TRUE }
      [] key \in {"utilityMods", "implicitMods", "enchantMods", "craftedMods"} ->
             { << <<"a">> >> }
      [] key = "explicitMods" -> { << <<"1", "a">> >> }
      [] key = "properties" -> PropertiesValues
      [] key = "additionalProperties" -> AdditionalPropertiesValues
      [] key = "requirements" -> RequirementsValues
      [] key = "sockets" -> SocketsValues
      [] key = "flavourText" -> FlavourTextValues
      [] OTHER -> { << >> }

\* The number of pairs read so far.
NumRead == read.count

\* The next key may be read: the header keys come first, in order.
MayRead(key) ==
    /\ outcome.kind = "Pending"
    /\ NumRead < MaxKeys
    /\ NumRead < Len(HeaderKeys) => key = HeaderKeys[NumRead + 1]

\* One turn of the key loop of visit_map: map.next_key() yields the key,
\* the key's arm reads the value and updates the locals or ends the decode
\* (r is what the arm does).
Arm(key, value, r) ==
    /\ MayRead(key)
    /\ visitor' = r.st
    /\ outcome' = IF r.kind = "next" THEN outcome
                  ELSE [kind |-> IF r.kind = "err" THEN "Err" ELSE "Panic",
                        err |-> r.err, item |-> NoItem]
    /\ read' = [count |-> read.count + 1,
                values |-> [read.values EXCEPT ![key] = Append(@, value)]]
    /\ UNCHANGED << dbvars, stashvars, call, lazyvars, propvars, streamvars >>


\* The arms of the key loop, one action per key.
VisitId ==
    \E v \in ValuesOf("id") :
        Arm("id", v, visit_id(visitor, v))
VisitName ==
    \E v \in ValuesOf("name") :
        Arm("name", v, visit_name(visitor, v))
VisitTypeLine ==
    \E v \in ValuesOf("typeLine") :
        Arm("typeLine", v, visit_typeLine(visitor, v))
VisitIlvl ==
    \E v \in ValuesOf("ilvl") :
        Arm("ilvl", v, visit_ilvl(visitor, v))
VisitRequirements ==
    \E v \in ValuesOf("requirements") :
        Arm("requirements", v, visit_requirements(visitor, v))
VisitFrameType ==
    \E v \in ValuesOf("frameType") :
        Arm("frameType", v, visit_frameType(visitor, v))
VisitCategory ==
    \E v \in ValuesOf("category") :
        Arm("category", v, visit_category(visitor, v))
VisitIdentified ==
    \E v \in ValuesOf("identified") :
        Arm("identified", v, visit_identified(visitor, v))
VisitUtilityMods ==
    \E v \in ValuesOf("utilityMods") :
        Arm("utilityMods", v, visit_utilityMods(ITEM_MODS[1], visitor, v))
VisitImplicitMods ==
    \E v \in ValuesOf("implicitMods") :
        Arm("implicitMods", v, visit_implicitMods(ITEM_MODS[1], visitor, v))
VisitEnchantMods ==
    \E v \in ValuesOf("enchantMods") :
        Arm("enchantMods", v, visit_enchantMods(ITEM_MODS[1], visitor, v))
VisitExplicitMods ==
    \E v \in ValuesOf("explicitMods") :
        Arm("explicitMods", v, visit_explicitMods(ITEM_MODS[1], visitor, v))
VisitCraftedMods ==
    \E v \in ValuesOf("craftedMods") :
        Arm("craftedMods", v, visit_craftedMods(ITEM_MODS[1], visitor, v))
VisitSockets ==
    \E v \in ValuesOf("sockets") :
        Arm("sockets", v, visit_sockets(visitor, v))
VisitSocketedItems ==
    \E v \in ValuesOf("socketedItems") :
        Arm("socketedItems", v, visit_socketedItems(visitor, v))
VisitCorrupted ==
    \E v \in ValuesOf("corrupted") :
        Arm("corrupted", v, visit_corrupted(visitor, v))
VisitDuplicated ==
    \E v \in ValuesOf("duplicated") :
        Arm("duplicated", v, visit_duplicated(visitor, v))
VisitElder ==
    \E v \in ValuesOf("elder") :
        Arm("elder", v, visit_elder(visitor, v))
VisitShaper ==
    \E v \in ValuesOf("shaper") :
        Arm("shaper", v, visit_shaper(visitor, v))
VisitFlavourText ==
    \E v \in ValuesOf("flavourText") :
        Arm("flavourText", v, visit_flavourText(visitor, v))
VisitProperties ==
    \E v \in ValuesOf("properties") :
        Arm("properties", v, visit_properties(visitor, v))
VisitAdditionalProperties ==
    \E v \in ValuesOf("additionalProperties") :
        Arm("additionalProperties", v, visit_additionalProperties(visitor, v))
VisitIgnored ==
    \E key \in IgnoredKeys : \E v \in ValuesOf(key) : Arm(key, v, visit_ignored(visitor, v))
VisitOther ==
    \E key \in OtherKeys : \E v \in ValuesOf(key) : Arm(key, v, visit_other(visitor, key, v))

\* map.next_key() yields None: the loop ends and visit_map returns.
EndOfMap ==
    /\ outcome.kind = "Pending"
    /\ outcome' = Finish(visitor)
    /\ UNCHANGED << read, visitor >>
    /\ UNCHANGED << dbvars, stashvars, call, lazyvars, propvars, streamvars >>

\* An item is decoded with the mod database already initialized.
ItemInit ==
    /\ mod_data = ItemModData
    /\ prefix_lines = ItemPrefixLines
    /\ ITEM_MODS = Some(DatabaseNew(ItemModData, ItemPrefixLines))
    /\ last = NoCall
    /\ DecoderIdle
    /\ StashIdle
    /\ call = NoDecode
    /\ LazyIdle
    /\ PropertiesIdle
    /\ StreamIdle

ItemNext ==
    \/ VisitId \/ VisitName \/ VisitTypeLine \/ VisitIlvl \/ VisitRequirements
    \/ VisitFrameType \/ VisitCategory \/ VisitIdentified
    \/ VisitUtilityMods \/ VisitImplicitMods \/ VisitEnchantMods
    \/ VisitExplicitMods \/ VisitCraftedMods
    \/ VisitSockets \/ VisitSocketedItems
    \/ VisitCorrupted \/ VisitDuplicated \/ VisitElder \/ VisitShaper
    \/ VisitFlavourText \/ VisitProperties \/ VisitAdditionalProperties
    \/ VisitIgnored \/ VisitOther
    \/ EndOfMap

DbNext == initialize \/ DeserializeMods \/ Len_ \/ Iter_ \/ Return_

vars == << mod_data, prefix_lines, ITEM_MODS, last, read, visitor, outcome,
          stash_read, stash_visitor, stash_outcome, call, once, threads, builds,
          container, prop_call, unfold, flatten_next, requests, pages, yielded, ended >>

Init == DbInit
Next == DbNext
Spec == Init /\ [][Next]_vars

SpecItem == ItemInit /\ [][ItemNext]_vars

\* ------------------------------------------------- database properties
SeqToSet(s) == { s[i] : i \in DOMAIN s }

\* The ModInfos loaded under a mod type.
InfosOf(db, mt) ==
    IF mt \in DOMAIN db.by_type_and_id THEN db.by_type_and_id[mt] ELSE << >>

\* The ids of the templates of a mod type whose full, anchored,
\* case-insensitive pattern matches the text.
MatchingIds(db, mt, text) ==
    { InfosOf(db, mt)[i].id : i \in { j \in 1..Len(InfosOf(db, mt)) :
                                        IsMatch(InfosOf(db, mt)[j].regex, text) } }

\* Numbers to put in the place of a '#'.
SampleNumbers == { <<"1">>, <<"1", "1">>, <<"1", ".", "1">>, <<"+", "1">> }

\* The literal texts a text template makes with sample numbers for its '#'s.
RECURSIVE Instantiations(_)
Instantiations(template) ==
    IF template = << >> THEN { << >> }
    ELSE LET rest == Instantiations(Tail(template)) IN
         IF Head(template) = "#"
         THEN { n \o r : n \in SampleNumbers, r \in rest }
         ELSE { << Head(template) >> \o r : r \in rest }

\* The template id a resolve result names, as a set (empty for None).
ResolvedId(r) == IF r.kind = "Some" THEN { r.data[1][1] } ELSE {}

\* C1: round-trip coverage.  Once the Database is loaded, every template T
\* loaded under mod type m has at least one literal text, made from T's text
\* template by putting a number in the place of each '#', that
\* resolve(m, text) resolves to T's own id.
C1_RoundTripCoverage ==
    last.op = "initialize" =>
        \A mt \in DOMAIN ITEM_MODS[1].by_type_and_id :
            \A i \in 1..Len(ITEM_MODS[1].by_type_and_id[mt]) :
                LET T == ITEM_MODS[1].by_type_and_id[mt][i] IN
                \E text \in Instantiations(T.text_template) :
                    ResolvedId(resolve(ITEM_MODS[1], mt, text)) = { T.id }

\* C2: for every mod type and text, lookup_all on the sharded matcher returns
\* exactly the templates of the type whose full, anchored, case-insensitive
\* pattern matches the text: the set the flat matcher (RegexMatcher::new over
\* the same pairs) returns.
C2_ShardedEqualsFlat ==
    last.op = "deserialize_mods" =>
        \A i \in 1..Len(last.texts) :
            LET db == ITEM_MODS[1]
                flat == MatcherNew(Vec([k \in 1..Len(InfosOf(db, last.mod_type)) |->
                            << InfosOf(db, last.mod_type)[k].regex.str,
                               InfosOf(db, last.mod_type)[k].id >>]))
            IN /\ SeqToSet(last.matched[i]) = MatchingIds(db, last.mod_type, last.texts[i])
               /\ SeqToSet(last.matched[i]) = SeqToSet(lookup_all(flat, last.texts[i]))

\* The number of records the Database was built from.
TotalRecords(db) ==
    LET RECURSIVE Sum(_)
        Sum(i) == IF i > Len(ModTypeSeq) THEN 0
                  ELSE Len(InfosOf(db, ModTypeSeq[i])) + Sum(i + 1)
    IN Sum(1)

AllIds(db) == UNION { { InfosOf(db, mt)[i].id : i \in 1..Len(InfosOf(db, mt)) } : mt \in ModTypes }

\* C3: for any records and any prefix list, len() is the total number of
\* input records and iter() yields every record exactly once.
C3_LenIsRecordCount ==
    /\ last.op = "len" => last.n = TotalRecords(ITEM_MODS[1])
    /\ last.op = "iter" =>
          /\ Len(last.infos) = TotalRecords(ITEM_MODS[1])
          /\ \A id \in AllIds(ITEM_MODS[1]) :
                Cardinality({ i \in 1..Len(last.infos) : last.infos[i] = id }) = 1

\* The length of the pattern of the template with the given id.
PatternLen(db, id) == Len(Info(db, id).regex.str)

\* C4: when a text matches two or more templates of the requested type whose
\* patterns have different lengths, resolve returns the template with the
\* longest pattern (and the same one on every call: resolve reads nothing
\* but the database and the text).
C4_LongestPatternWins ==
    last.op = "deserialize_mods" =>
        \A i \in 1..Len(last.texts) :
            LET db == ITEM_MODS[1]
                m == MatchingIds(db, last.mod_type, last.texts[i])
            IN (/\ Cardinality(m) >= 2
                /\ \A a, b \in m : a # b => PatternLen(db, a) # PatternLen(db, b))
               => /\ last.mods[i].data # None
                  /\ \A b \in m : PatternLen(db, last.mods[i].data[1][1]) >= PatternLen(db, b)
                  /\ last.mods[i] = ModNew(db, last.mod_type, last.texts[i]).mod

\* C5: when a mod text matches no template of its mod type, resolve returns
\* None without panicking, the Mod keeps its type and the exact text with no
\* resolved template or values, and deserialize_mods returns Ok with the Mod
\* in the text's place, so the item's decoding goes on.
C5_UnresolvedModIsKept ==
    last.op = "deserialize_mods" =>
        /\ Len(last.mods) = Len(last.texts)
        /\ \A i \in 1..Len(last.texts) :
              MatchingIds(ITEM_MODS[1], last.mod_type, last.texts[i]) = {}
              => /\ last.kinds[i] = "None"
                 /\ last.mods[i] = [type_ |-> last.mod_type, text |-> last.texts[i],
                                    data |-> None]
        /\ (\A i \in 1..Len(last.texts) :
               MatchingIds(ITEM_MODS[1], last.mod_type, last.texts[i]) = {})
           => last.ok

\* A text that matches none of the templates its type has was decoded.
C5_Witness ==
    /\ last.op = "deserialize_mods"
    /\ Len(last.texts) >= 1
    /\ InfosOf(ITEM_MODS[1], last.mod_type) # << >>
    /\ MatchingIds(ITEM_MODS[1], last.mod_type, last.texts[1]) = {}
    /\ last.ok
    /\ last.mods[1].data = None
    /\ last.mods[1].text = last.texts[1]

\* -------------------------------------------------- decoder properties
\* The item of a successful decode.
Decoded == outcome.item[1]

\* The decode failed: an error was returned, or the decoder panicked.
Failed(o) == o.kind \in {"Err", "Panic"}

\* Two decodes ended the same way: the same Item, or failure.
SameOutcome(a, b) ==
    \/ Failed(a) /\ Failed(b)
    \/ a.kind = "Ok" /\ b.kind = "Ok" /\ a.item = b.item

\* The keys the decoder decodes into the Item (not the ones it reads and
\* drops, nor the unknown ones it files under extra).
RecognizedKeys == ItemKeys \ (IgnoredKeys \cup OtherKeys \cup {"socketedItems"})

\* The field a duplicate-field error names for the key.
FieldOf(key) == IF key \in {"elder", "shaper"} THEN "elder/shaper" ELSE key

\* C6: a second occurrence of a key the decoder recognizes makes the decode
\* fail with a duplicate-field error naming that key; the decoder never goes
\* on (or succeeds) after reading a recognized key twice.
C6_DuplicateKeyIsError ==
    \A key \in RecognizedKeys :
        Len(read.values[key]) >= 2 =>
            /\ outcome.kind = "Err"
            /\ outcome.err = DuplicateField(FieldOf(key))

\* The pairs read, in one fixed order of the keys.
KeyOrder ==
    <<"id", "name", "typeLine", "ilvl", "requirements", "frameType", "category",
      "identified", "utilityMods", "implicitMods", "enchantMods", "explicitMods",
      "craftedMods", "sockets", "socketedItems", "corrupted", "duplicated", "elder",
      "shaper", "flavourText", "properties", "additionalProperties",
      "nextLevelRequirements", "verified", "support", "league", "lockedToCharacter",
      "x">>

RECURSIVE PairsFrom(_, _)
PairsFrom(values, i) ==
    IF i > Len(KeyOrder) THEN << >>
    ELSE [j \in 1..Len(values[KeyOrder[i]]) |-> Pair(KeyOrder[i], values[KeyOrder[i]][j])]
         \o PairsFrom(values, i + 1)

\* C7: the outcome of a decode depends only on the key/value pairs of the
\* object, not on their order: a decode that has ended (with the object's
\* last pair read) ended the way the decode of the same pairs in the fixed
\* order KeyOrder ends.
C7_OrderIndependent ==
    outcome.kind # "Pending" =>
        SameOutcome(outcome, visit_map(ITEM_MODS[1], PairsFrom(read.values, 1)))

\* The properties array read under the key holds a property of that name.
ReadProperty(key, name) ==
    \E i \in 1..Len(read.values[key]) :
        \E j \in 1..Len(read.values[key][i]) : read.values[key][i][j].name = name

\* The item decoded and its JSON did not say identified = false.
DecodedIdentified == outcome.kind = "Ok" /\ read.values["identified"] # << FALSE >>

IsVariant(details, variant) == details # None /\ details[1].variant = variant

\* C8: an item whose JSON has identified = false is Unidentified whatever
\* other keys are present; never Gear, Map, Gem or Flask.
C8_UnidentifiedWins ==
    (outcome.kind = "Ok" /\ read.values["identified"] = << FALSE >>)
    => Decoded.details = Some([variant |-> "Unidentified"])

\* An unidentified item with a Map Tier, a gem level, utility mods or gear
\* mods was decoded.
C8_Witness ==
    /\ outcome.kind = "Ok"
    /\ read.values["identified"] = << FALSE >>
    /\ \/ ReadProperty("properties", "Map Tier")
       \/ ReadProperty("properties", "Level")
       \/ read.values["utilityMods"] # << >>
       \/ read.values["explicitMods"] # << >>
    /\ IsVariant(Decoded.details, "Unidentified")

\* The precondition of C9: identified, no Map Tier, not both gem level and
\* gem experience, and a utilityMods key.
FlaskCandidate ==
    /\ DecodedIdentified
    /\ ~ReadProperty("properties", "Map Tier")
    /\ ~(ReadProperty("properties", "Level")
         /\ ReadProperty("additionalProperties", "Experience"))
    /\ read.values["utilityMods"] # << >>

\* The item is a Flask carrying the mods of its utilityMods array.
IsFlaskWithUtilityMods ==
    /\ IsVariant(Decoded.details, "Flask")
    /\ Decoded.details[1].mods =
           deserialize_mods(ITEM_MODS[1], "explicit", read.values["utilityMods"][1]).mods

\* C9 as stated: such an item is a Flask carrying those mods, whether or not
\* the duration and charges-per-use properties are present.
C9_UtilityModsMakeFlask == FlaskCandidate => IsFlaskWithUtilityMods

GearModKeys == {"implicitMods", "enchantMods", "explicitMods", "craftedMods"}

ModsRead(key) ==
    IF read.values[key] = << >> THEN << >>
    ELSE deserialize_mods(ITEM_MODS[1],
                          CASE key = "implicitMods" -> "implicit"
                            [] key = "enchantMods" -> "enchant"
                            [] key = "explicitMods" -> "explicit"
                            [] OTHER -> "crafted",
                          read.values[key][1]).mods

\* C10: an identified item that is not Map, Gem or Flask is Gear if and only
\* if one of the four gear mod arrays is present and its category is not
\* Currency (the Gear then holds the four arrays); otherwise it has no
\* details, so a Currency item with explicitMods is never Gear.
C10_GearIffModsAndNotCurrency ==
    (/\ DecodedIdentified
     /\ ~IsVariant(Decoded.details, "Map")
     /\ ~IsVariant(Decoded.details, "Gem")
     /\ ~IsVariant(Decoded.details, "Flask"))
    => IF /\ \E key \in GearModKeys : read.values[key] # << >>
          /\ Decoded.category # QuasiTrue(Currency)
       THEN Decoded.details = Some([variant |-> "Gear",
                                    implicit |-> ModsRead("implicitMods"),
                                    enchants |-> ModsRead("enchantMods"),
                                    explicit |-> ModsRead("explicitMods"),
                                    crafted |-> ModsRead("craftedMods")])
       ELSE Decoded.details = None

\* A Currency item with explicitMods was decoded and has no details.
C10_Witness ==
    /\ DecodedIdentified
    /\ Decoded.category = QuasiTrue(Currency)
    /\ read.values["explicitMods"] # << >>
    /\ Decoded.details = None

\* The influence the elder and shaper flags of the JSON stand for.
InfluenceOf(elder, shaper) ==
    IF elder THEN Some("Elder") ELSE IF shaper THEN Some("Shaper") ELSE None

\* C11: an item with both an elder and a shaper key, at most one of them
\* true, does not fail on the pair (no duplicate-field error for
\* elder/shaper) and decodes to influence Elder if elder is true, Shaper if
\* shaper is true, none if both are false; with neither key the influence is
\* none.
C11_InfluenceFromElderShaper ==
    /\ (/\ Len(read.values["elder"]) = 1
        /\ Len(read.values["shaper"]) = 1
        /\ ~(read.values["elder"][1] /\ read.values["shaper"][1]))
       => /\ outcome.err # DuplicateField("elder/shaper")
          /\ outcome.kind = "Ok"
             => Decoded.influence = InfluenceOf(read.values["elder"][1],
                                                read.values["shaper"][1])
    /\ (/\ outcome.kind = "Ok"
        /\ read.values["elder"] = << >>
        /\ read.values["shaper"] = << >>)
       => Decoded.influence = None

\* ============================================================ stash decoding
\* ------------------------------------------------------------------ inputs
MaxItems == 2
MaxStashKeys == 6

\* The keys every stash document starts with, in this order.
StashHeaderKeys == <<"id", "stashType", "accountName">>

\* The part every item document of a stash shares.
ItemBase ==
    << Pair("id", <<"i">>), Pair("name", << >>), Pair("typeLine", <<"B">>),
       Pair("ilvl", 1), Pair("frameType", 1) >>
ItemPlace == << Pair("x", 0), Pair("y", 0), Pair("w", 1), Pair("h", 1) >>
CurrencyJson == JsonMap(<< [key |-> "currency", subcats |-> << >>] >>)
TrinketJson == JsonMap(<< [key |-> "accessories", subcats |-> <<"trinket">>] >>)

\* The item documents of the stashes: one of the Standard league, one with a price note,
\* one of the Hardcore league, one without its category, one with a subtype
\* the category decoder does not know, one with a note of an unknown tag,
\* one without its x.
StashDocs ==
    << ItemBase \o << Pair("category", CurrencyJson),
                      Pair("league", <<"S", "t", "a", "n", "d", "a", "r", "d">>) >>
                \o ItemPlace,
       ItemBase \o << Pair("category", CurrencyJson),
                      Pair("note", <<"~", "b", "/", "o", " ", "1", " ", "e", "x", "a">>) >>
                \o ItemPlace,
       ItemBase \o << Pair("category", CurrencyJson),
                      Pair("league", <<"H", "a", "r", "d", "c", "o", "r", "e">>) >>
                \o ItemPlace,
       ItemBase \o ItemPlace,
       ItemBase \o << Pair("category", TrinketJson) >> \o ItemPlace,
       ItemBase \o << Pair("category", CurrencyJson),
                      Pair("note", <<"~", "s", "k", "i", "n">>) >> \o ItemPlace,
       ItemBase \o << Pair("category", CurrencyJson) >> \o Tail(ItemPlace) >>

\* The items arrays: the documents by their numbers in StashDocs.
ItemsValues == UNION { [1..n -> 1..Len(StashDocs)] : n \in 0..MaxItems }

DocsOf(indexes) == [i \in 1..Len(indexes) |-> StashDocs[indexes[i]]]

\* The stash names and item notes.
LabelTexts ==
    { << >>,
      <<"t">>,
      <<"~", "b", "/", "o", " ", "1", " ", "c", "h", "a", "o", "s">>,
      <<"~", "p", "r", "i", "c", "e", " ", "1", "/", "2", " ", "e", "x", "a">>,
      <<"~", "p", "r", "i", "c", "e", " ", "1", " ", "a", "l", "t", " ", "/", "x">>,
      <<"~", "b", "/", "o", " ", "o", "f", "f", "e", "r">>,
      <<"~", "s", "k", "i", "n", " ", "x">>,
      <<"~", "b", "/", "o", " ", "1", " ", "m", "i", "r", "r", "o", "r">> }

\* The values drawn for each key of a stash document (null is None).
StashValuesOf(key) ==
    CASE key = "id" -> { <<"s">> }
      [] key = "stash" -> { None } \cup { Some(t) : t \in LabelTexts }
      [] key = "stashType" -> { "QuadStash", "Bogus" }
      [] key = "accountName" -> { None, Some(<<"a">>) }
      [] key = "lastCharacterName" -> { Some(<<"c">>) }
      [] key = "items" -> ItemsValues
      [] OTHER -> { TRUE }

\* ----------------------------------------------------------------- actions
\* The next key of the stash may be read: the header keys come first.
StashMayRead(key) ==
    /\ stash_outcome.kind = "Pending"
    /\ stash_read.count < MaxStashKeys
    /\ stash_read.count < Len(StashHeaderKeys) => key = StashHeaderKeys[stash_read.count + 1]

\* One turn of the key loop of StashVisitor::visit_map (r is what the key's
\* arm does).
StashArm(key, value, r) ==
    /\ StashMayRead(key)
    /\ stash_visitor' = r.st
    /\ stash_outcome' = IF r.kind = "next" THEN stash_outcome
                        ELSE [kind |-> IF r.kind = "err" THEN "Err" ELSE "Panic",
                              err |-> r.err, stash |-> NoStash]
    /\ stash_read' = [count |-> stash_read.count + 1,
                      values |-> [stash_read.values EXCEPT ![key] = Append(@, value)]]
    /\ UNCHANGED << dbvars, decvars, call, lazyvars, propvars, streamvars >>

StashVisitId ==
    \E v \in StashValuesOf("id") : StashArm("id", v, stash_visit_field(stash_visitor, "id", v))

StashVisitLabel ==
    \E v \in StashValuesOf("stash") :
        StashArm("stash", v, stash_visit_field(stash_visitor, "stash", v))

StashVisitType ==
    \E v \in StashValuesOf("stashType") :
        StashArm("stashType", v, stash_visit_field(stash_visitor, "stashType", v))

StashVisitAccount ==
    \E v \in StashValuesOf("accountName") :
        StashArm("accountName", v, stash_visit_field(stash_visitor, "accountName", v))

StashVisitLastCharacter ==
    \E v \in StashValuesOf("lastCharacterName") :
        StashArm("lastCharacterName", v,
                 stash_visit_field(stash_visitor, "lastCharacterName", v))

StashVisitItems ==
    \E v \in StashValuesOf("items") :
        StashArm("items", v, stash_visit_items(ITEM_MODS[1], stash_visitor, DocsOf(v)))

StashVisitPublic ==
    \E v \in StashValuesOf("public") :
        StashArm("public", v, stash_visit_field(stash_visitor, "public", v))

StashVisitOther ==
    \E v \in StashValuesOf("league") :
        StashArm("league", v, stash_visit_field(stash_visitor, "league", v))

\* map.next_key() yields None: the loop ends and visit_map returns.
StashEndOfMap ==
    /\ stash_outcome.kind = "Pending"
    /\ stash_outcome' = StashFinish(stash_visitor)
    /\ UNCHANGED << stash_read, stash_visitor >>
    /\ UNCHANGED << dbvars, decvars, call, lazyvars, propvars, streamvars >>

\* A stash is decoded with the mod database already initialized.
StashInit == ItemInit

StashNext ==
    \/ StashVisitId \/ StashVisitLabel \/ StashVisitType \/ StashVisitAccount
    \/ StashVisitLastCharacter \/ StashVisitItems \/ StashVisitPublic
    \/ StashVisitOther \/ StashEndOfMap

SpecStash == StashInit /\ [][StashNext]_vars

\* ============================================================ stash claims
\* The items arrays the stash decoder has read.
ItemsRead == stash_read.values["items"]

\* What the n-th item document decodes to on its own.
StashedAlone(n) == DeserializeStashedItem(ITEM_MODS[1], StashDocs[n])

\* The documents of the array are of one league at most.
OneLeague(indexes) ==
    Cardinality(UNION { LeaguesOf(StashDocs[indexes[i]]) : i \in 1..Len(indexes) }) <= 1

\* C12: a hard decode error in one item of a stash's items array is confined
\* to that item: once the array has been read, the stash holds every item of
\* the array that decodes on its own, with the value it decodes to on its
\* own, whatever the other items of the array are.
C12_ItemErrorIsConfined ==
    (/\ Len(ItemsRead) = 1
     /\ OneLeague(ItemsRead[1])
     /\ \E i \in 1..Len(ItemsRead[1]) : StashedAlone(ItemsRead[1][i]).kind = "Err"
     /\ \E i \in 1..Len(ItemsRead[1]) : StashedAlone(ItemsRead[1][i]).kind = "Ok")
    => LET good == SelectSeq(ItemsRead[1], LAMBDA n : StashedAlone(n).kind = "Ok")
       IN stash_visitor.items = Some([k \in 1..Len(good) |-> StashedAlone(good[k]).item[1]])

\* The category documents read so far that name a known group with a
\* subtype the category decoder rejects.
UnknownSubtypesRead ==
    { i \in 1..Len(read.values["category"]) :
        ~DeserializeItemCategory(read.values["category"][i]).ok }

\* C13: an item whose category names a known group with an unrecognized
\* subtype is never accepted: no decode that has read such a category
\* returns an item, and no item is returned with a substitute in place of
\* its category.
C13_UnknownSubtypeFails ==
    outcome.kind = "Ok"
    => /\ UnknownSubtypesRead = {}
       /\ Decoded.category.quasi = "True"

\* The stash names read so far (None for null).
LabelsRead == stash_read.values["stash"]

\* The text has a leading '~tag' that is not one of the price tags.
HasUnknownTag(text) ==
    /\ StartsWith(text, <<"~">>)
    /\ ~StartsWith(text, EXACT_PRICE_PREFIX)
    /\ ~StartsWith(text, NEGOTIABLE_PRICE_PREFIX)

\* C14: decoding a Label never fails: once the stash's name has been read
\* from a string, the stash has a label, which is Empty for the empty string
\* and Unknown for a string whose leading '~tag' is not a price tag.
C14_LabelNeverFails ==
    (Len(LabelsRead) = 1 /\ LabelsRead[1] # None)
    => /\ stash_visitor.label # None
       /\ stash_visitor.label[1] # None
       /\ LabelsRead[1][1] = << >> => stash_visitor.label[1][1].variant = "Empty"
       /\ HasUnknownTag(LabelsRead[1][1]) => stash_visitor.label[1][1].variant = "Unknown"

\* The properties the item decoder plucks out of "properties" and
\* "additionalProperties".
PluckedNames ==
    {"Quality", "Map Tier", "Item Quantity", "Item Rarity", "Monster Pack Size", "Level",
     "Lasts %0 Seconds", "Consumes %0 of %1 Charges on use", "Experience"}

\* The properties arrays read so far, of both keys.
PropertiesRead == read.values["properties"] \o read.values["additionalProperties"]

\* A plucked property without a value has been read.
ValuelessRead ==
    \E i \in 1..Len(PropertiesRead) : \E j \in 1..Len(PropertiesRead[i]) :
        /\ PropertiesRead[i][j].name \in PluckedNames
        /\ PropertiesRead[i][j].value = None

\* C15: a plucked property without a value, or with text that cannot be
\* parsed, is a decode error and never a panic; the error for the missing
\* value is not one of the errors the parsers give for unparsable text.
C15_PluckedPropertyErrors ==
    /\ outcome.kind # "Panic"
    /\ (ValuelessRead /\ Len(PropertiesRead) = 1)
       => /\ outcome.kind = "Err"
          /\ outcome.err.type_ \notin {"invalid_value", "custom"}

\* ======================================================= decoders on their own
\* ------------------------------------------------- sockets (stashes::de)
\* The groups as numbered when the socket indices are a contiguous range.
RangeFrom0(n) == [i \in 1..n |-> i - 1]

\* ItemSocketsVisitor::visit_seq of stashes::de without the check of the
\* group indices.
ItemSocketsVisitSeq_NoRangeCheck(json) ==
    LET regular == SelectSeq(json, LAMBDA s : s.sColour # "A")
        Grouped(ids) ==
            IF \E i \in 1..Len(regular) : regular[i].sColour \notin RegularColors
            THEN Err("unknown_variant", "socket colour")
            ELSE Ok([abyssal_count |-> Len(json) - Len(regular),
                     regular_groups |->
                         Vec([k \in 1..Len(ids) |->
                             [id |-> ids[k] % 2 ^ 8,
                              colors |-> Vec([j \in 1..Len(SelectSeq(regular, LAMBDA s : s.group = ids[k])) |->
                                             SelectSeq(regular, LAMBDA s : s.group = ids[k])[j].sColour])]])])
    IN IF json = << >> THEN Ok([abyssal_count |-> 0, regular_groups |-> << >>])
       ELSE Grouped(SortedGroups({ regular[i].group : i \in 1..Len(regular) }))

\* ItemSocketsVisitor::visit_seq of stashes::de on an array of
\* {group, sColour} objects: the group indices of the regular sockets have
\* to be 0, 1, ..., one less than their number.
ItemSocketsVisitSeq(json) ==
    LET regular == SelectSeq(json, LAMBDA s : s.sColour # "A")
        Grouped(ids) ==
            IF \E i \in 1..Len(regular) : regular[i].sColour \notin RegularColors
            THEN Err("unknown_variant", "socket colour")
            ELSE IF ids # RangeFrom0(Len(ids))
            THEN Err("custom", "socket group indices not in a contiguous range")
            ELSE Ok([abyssal_count |-> Len(json) - Len(regular),
                     regular_groups |->
                         Vec([k \in 1..Len(ids) |->
                             [id |-> ids[k] % 2 ^ 8,
                              colors |-> Vec([j \in 1..Len(SelectSeq(regular, LAMBDA s : s.group = ids[k])) |->
                                             SelectSeq(regular, LAMBDA s : s.group = ids[k])[j].sColour])]])])
    IN IF json = << >> THEN Ok([abyssal_count |-> 0, regular_groups |-> << >>])
       ELSE Grouped(SortedGroups({ regular[i].group : i \in 1..Len(regular) }))

\* ------------------------------------------------------------------ inputs
MaxSockets == 3
MaxGroup == 3

\* The socket arrays: every socket has its group and its colour ("A" is an
\* abyssal socket, "X" a colour the decoder does not know).
SocketArrays ==
    UNION { [1..n -> [group : 0..MaxGroup, sColour : {"R", "G", "A", "X"}]] :
            n \in 0..MaxSockets }

\* ----------------------------------------------------------------- actions
\* ItemSockets::deserialize is called on a socket array.
DecodeSockets ==
    /\ call = NoDecode
    /\ \E json \in SocketArrays :
           call' = [op |-> "sockets",
                    sockets |-> [input |-> json, output |-> ItemSocketsVisitSeq(json)]]
    /\ UNCHANGED << dbvars, decvars, stashvars, lazyvars, propvars, streamvars >>

\* The texts handed to parse_number.
MaxNumberLen == 4
NumberTexts == StringsOver({"1", ".", "/", "a", " "}, 0, MaxNumberLen)

\* util::parse_number is called on a text.
ParseNumber ==
    /\ call = NoDecode
    /\ \E s \in NumberTexts :
           call' = [op |-> "parse_number",
                    parse_number |-> [input |-> s, output |-> parse_number(s)]]
    /\ UNCHANGED << dbvars, decvars, stashvars, lazyvars, propvars, streamvars >>

\* The category documents: every group with each of its subtypes, with a
\* subtype it does not have and with an empty array; the plain categories as
\* maps and as strings; strings and keys outside the list; maps of no key and
\* of two keys.
CategoryGroups ==
    [accessories |-> DOMAIN AccessoryTypes, armour |-> DOMAIN ArmourTypes,
     weapons |-> DOMAIN WeaponTypes, jewels |-> {"abyss"}]
CategoryDocs ==
    UNION { { JsonMap(<< [key |-> g, subcats |-> << sub >>] >>) :
                sub \in CategoryGroups[g] \cup {"trinket"} }
            \cup { JsonMap(<< [key |-> g, subcats |-> << >>] >>) } :
            g \in DOMAIN CategoryGroups }
    \cup UNION { { JsonMap(<< [key |-> p, subcats |-> << >>] >>),
                   JsonMap(<< [key |-> p, subcats |-> << "x" >>] >>),
                   JsonStr(p) } :
                 p \in DOMAIN PlainCategories \cup {"jewels", "zorkmids"} }
    \cup { JsonStr("Currency"), JsonStr(" currency"), JsonStr("Gems"), JsonStr(" Zorkmids"),
           JsonStr("accessories"),
           JsonMap(<< >>),
           JsonMap(<< [key |-> "gems", subcats |-> << >>],
                      [key |-> "maps", subcats |-> << >>] >>) }

\* ItemCategory::deserialize is called on a category document.
DecodeCategory ==
    /\ call = NoDecode
    /\ \E json \in CategoryDocs :
           call' = [op |-> "category",
                    category |-> [input |-> json, output |-> DeserializeItemCategory(json)]]
    /\ UNCHANGED << dbvars, decvars, stashvars, lazyvars, propvars, streamvars >>

\* The label strings: a tag or a word, an amount, a currency and a trailer
\* put together, and the strings of the label tests.
LabelTags == { <<"~", "p", "r", "i", "c", "e">>, <<"~", "b", "/", "o">>,
               <<"p", "r", "i", "c", "e">>, <<"~">>, << >> }
LabelAmounts == { <<"1">>, <<"2", "5">>, <<"1", "/", "2">>, <<"1", ".", "5">>, <<"a">> }
LabelCurrencies == { <<"c", "h", "a", "o", "s">>, <<"e", "x", "a">>,
                     <<"m", "i", "r", "r", "o", "r">> }
LabelTrailers == { << >>, <<" ", "/", "x">>, <<" ", "x">> }
LabelDocs ==
    { Flatten(<< tag, gap, amount, <<" ">>, currency, trailer >>) :
        tag \in LabelTags, gap \in { << >>, <<" ">> }, amount \in LabelAmounts,
        currency \in LabelCurrencies, trailer \in LabelTrailers }
    \cup { << >>, <<"f", "o", "o">>, <<" ">>, <<"a", " ", "|", "b">> }

\* Label::deserialize is called on a label string.
DecodeLabel ==
    /\ call = NoDecode
    /\ \E v \in LabelDocs :
           call' = [op |-> "label",
                    label |-> [input |-> v, output |-> DeserializeLabel(v)]]
    /\ UNCHANGED << dbvars, decvars, stashvars, lazyvars, propvars, streamvars >>

\* The league names: up to MaxWords words, one space apart, and some names
\* with other spacing.
MaxWords == 3
LeagueWords ==
    COMMON_WORDS \cup { <<"A", "b", "y", "s", "s">>, <<"A">>, <<"a", "b">>, <<"A", "B">>,
                        <<"A", "1">> }
RECURSIVE JoinWords(_)
JoinWords(words) ==
    IF Len(words) = 0 THEN << >>
    ELSE IF Len(words) = 1 THEN words[1]
    ELSE words[1] \o <<" ">> \o JoinWords(Tail(words))
LeagueNames ==
    { JoinWords(words) : words \in UNION { [1..n -> LeagueWords] : n \in 0..MaxWords } }
    \cup { <<" ">>, <<" ", "S", "S", "F">>, <<"H", "C", " ">>,
           <<"S", "S", "F", " ", " ", "H", "a", "r", "d", "c", "o", "r", "e">> }

\* League::from_str is called on a league name.
ParseLeague ==
    /\ call = NoDecode
    /\ \E s \in LeagueNames :
           call' = [op |-> "league",
                    league |-> [input |-> s, output |-> LeagueFromStr(s)]]
    /\ UNCHANGED << dbvars, decvars, stashvars, lazyvars, propvars, streamvars >>

\* The templates and the mod values a text is formatted from.
MaxFormatLen == 3
MaxValues == 2
FormatTemplates == StringsOver({"a", "#", ".", "+", " "}, 1, MaxFormatLen)
ModValueSamples ==
    { Fraction(0, 1), Fraction(1, 1), Fraction(23, 1), Fraction(3, 2), Fraction(-1, 1) }
ModValueLists == UNION { [1..n -> ModValueSamples] : n \in 0..MaxValues }

\* ModInfo::format_text is called on a template's info with some values and
\* ModInfo::parse_text of the same info on the text it returns.
FormatThenParse ==
    /\ call = NoDecode
    /\ \E template \in FormatTemplates, values \in ModValueLists :
           LET Parsed(mi, r) ==
                   [kind |-> r.kind, text |-> r.text,
                    parsed |-> IF r.kind = "text" THEN parse_text(mi, r.text)
                               ELSE [kind |-> "None", values |-> << >>]]
               Of(mi) == Parsed(mi, format_text(mi, values))
           IN call' = [op |-> "format",
                       format |-> [input |-> [template |-> Vec(template),
                                              values |-> Vec(values)],
                                   output |-> Of(ModInfo("explicit", 1, template))]]
    /\ UNCHANGED << dbvars, decvars, stashvars, lazyvars, propvars, streamvars >>

\* The prefix lines and the templates a matcher is split over.
MaxShardPrefixes == 2
MaxShardPrefixLen == 2
MaxShardPairs == 2
ShardPrefixLines ==
    UNION { [1..n -> StringsOver({"a", "A", "+"}, 1, MaxShardPrefixLen)] :
              n \in 0..MaxShardPrefixes }
ShardTemplates ==
    UNION { [1..n -> StringsOver({"a", "+", "#"}, 1, MaxShardPrefixLen)] :
              n \in 0..MaxShardPairs }

\* RegexMatcher::with_shards as Database::new calls it for one mod type:
\* the prefixes are PREFIXES, the mapping pairs each template's pattern
\* string with the template (its number).
SplitIntoShards ==
    /\ call = NoDecode
    /\ \E lines \in ShardPrefixLines, templates \in ShardTemplates :
           LET Of(prefixes, mapping) ==
                   [input |-> [prefixes |-> prefixes, mapping |-> mapping],
                    output |-> with_shards(prefixes, mapping)]
           IN call' = [op |-> "with_shards",
                       with_shards |->
                           Of(PREFIXES(Vec(lines)),
                              Vec([j \in 1..Len(templates) |->
                                      << regex_from_mod_text_template(templates[j]), j >>]))]
    /\ UNCHANGED << dbvars, decvars, stashvars, lazyvars, propvars, streamvars >>

\* The templates and the item texts parse_text is called with.
MaxParseTemplateLen == 2
MaxParseTextLen == 3
ParseTemplates == StringsOver({"a", "#", "+"}, 1, MaxParseTemplateLen)
ParseTexts == StringsOver({"a", "A", "1", "+", " "}, 0, MaxParseTextLen)

\* ModInfo::parse_text on the text of an item's mod.
ParseText ==
    /\ call = NoDecode
    /\ \E template \in ParseTemplates, text \in ParseTexts :
           call' = [op |-> "parse_text",
                    parse_text |->
                        [input |-> [template |-> Vec(template), text |-> Vec(text)],
                         output |-> parse_text(ModInfo("explicit", 1, template), text)]]
    /\ UNCHANGED << dbvars, decvars, stashvars, lazyvars, propvars, streamvars >>

\* The template records, prefix lines and mod texts of the databases that
\* are built twice.
MaxOrderedRecords == 2
MaxOrderedLen == 2
OrderedTemplates ==
    UNION { [1..n -> StringsOver({"a", "A", "#"}, 1, MaxOrderedLen)] :
              n \in 1..MaxOrderedRecords }
OrderedPrefixLines == { << >>, << <<"a">> >> }
OrderedTexts == StringsOver({"a", "A", "1"}, 0, MaxOrderedLen)

\* Two databases are built from the same explicit records, the second with
\* the id2info map of by_type_and_id iterated in another order (a HashMap's
\* iteration order is not fixed), and the same text is resolved on both.
ResolveOnBoth ==
    /\ call = NoDecode
    /\ \E templates \in OrderedTemplates, lines \in OrderedPrefixLines,
          text \in OrderedTexts :
         \E order \in Permutations(1..Len(templates)) :
           LET Infos(at) ==
                   Vec([i \in 1..Len(templates) |->
                           ModInfo("explicit", at[i], templates[at[i]])])
               Built(at) == DatabaseNew(("explicit" :> Infos(at)), lines)
           IN call' = [op |-> "resolve",
                       resolve |->
                           [input |-> [templates |-> Vec(templates), order |-> Vec(order),
                                       lines |-> lines, text |-> Vec(text)],
                            output |->
                                [first |-> resolve(Built([i \in 1..Len(templates) |-> i]),
                                                   "explicit", text),
                                 second |-> resolve(Built(order), "explicit", text)]]]
    /\ UNCHANGED << dbvars, decvars, stashvars, lazyvars, propvars, streamvars >>

DecodersNext ==
    \/ DecodeSockets
    \/ ParseNumber
    \/ DecodeCategory
    \/ DecodeLabel
    \/ ParseLeague
    \/ FormatThenParse
    \/ SplitIntoShards
    \/ ParseText
    \/ ResolveOnBoth

SpecDecoders == ItemInit /\ [][DecodersNext]_vars

\* ------------------------------------------------------- decoder claims
\* The socket array of the call has only colours the decoder knows.
KnownColours ==
    \A i \in 1..Len(call.sockets.input) : call.sockets.input[i].sColour \in RegularColors \cup {"A"}

\* The group indices of the regular sockets of the call.
RegularIndices ==
    { call.sockets.input[i].group : i \in { j \in 1..Len(call.sockets.input) : call.sockets.input[j].sColour # "A" } }

\* C16: socket decoding succeeds exactly when the group indices of the
\* regular sockets are 0, ..., k-1; on success there are k groups in
\* ascending order of index, each with the colours of its sockets in their
\* order, and the abyssal sockets are counted and in no group.
C16_SocketGroupsContiguous ==
    (call.op = "sockets" /\ KnownColours)
    => LET k == Cardinality(RegularIndices)
           sockets == call.sockets.output.value[1]
       IN /\ call.sockets.output.ok <=> RegularIndices = 0..(k - 1)
          /\ call.sockets.output.ok =>
               /\ Len(sockets.regular_groups) = k
               /\ \A g \in 1..k :
                    /\ sockets.regular_groups[g].id = g - 1
                    /\ sockets.regular_groups[g].colors =
                         LET members == SelectSeq(call.sockets.input,
                                                  LAMBDA s : s.sColour # "A" /\ s.group = g - 1)
                         IN [j \in 1..Len(members) |-> members[j].sColour]
               /\ sockets.abyssal_count =
                    Cardinality({ i \in 1..Len(call.sockets.input) : call.sockets.input[i].sColour = "A" })

\* The indices 0, 1, 3 are refused.
C16_Witness ==
    /\ call.op = "sockets"
    /\ KnownColours
    /\ RegularIndices = {0, 1, 3}
    /\ ~call.sockets.output.ok
    /\ call.sockets.output.err.type_ = "custom"

\* =========================================================== the lazy static
\* What Once::call_once does with a caller, by the state it finds: the
\* first caller runs the initializer, a caller that arrives while it runs
\* blocks until it is done, a later caller goes past.
OnceEnter_Unguarded(state) == IF state = "Complete" THEN "pass" ELSE "run"

OnceEnter(state) ==
    CASE state = "Incomplete" -> "run"
      [] state = "Running" -> "wait"
      [] OTHER -> "pass"

\* ------------------------------------------------------------------ inputs
MaxCalls == 2

\* The functions of the module that go through the lazy static.
LazyOps == {"initialize", "len", "iter", "resolve"}

\* ----------------------------------------------------------------- actions
\* A thread calls initialize() or one of the reads on ITEM_MODS.
ThreadCall(t) ==
    /\ threads[t].pc = "idle"
    /\ threads[t].calls < MaxCalls
    /\ \E op \in LazyOps :
           threads' = [threads EXCEPT ![t].pc = "deref", ![t].op = op,
                                      ![t].calls = @ + 1]
    /\ UNCHANGED << once, builds, dbvars, decvars, stashvars, call, propvars, streamvars >>

\* &*ITEM_MODS: the dereference goes through the Once.
ThreadDeref(t) ==
    /\ threads[t].pc = "deref"
    /\ LET enter == OnceEnter(once) IN
       /\ once' = IF enter = "run" THEN "Running" ELSE once
       /\ builds' = IF enter = "run" THEN builds + 1 ELSE builds
       /\ threads' = [threads EXCEPT ![t].pc = CASE enter = "run" -> "new_index"
                                                 [] enter = "wait" -> "waiting"
                                                 [] OTHER -> "use"]
    /\ UNCHANGED << dbvars, decvars, stashvars, call, propvars, streamvars >>

\* Database::new, first half: the table by_type_and_id, on the stack of the
\* thread that runs the initializer.
ThreadNewIndex(t) ==
    /\ threads[t].pc = "new_index"
    /\ threads' = [threads EXCEPT ![t].pc = "new_matchers",
                                  ![t].building = Some([by_type_and_id |-> mod_data])]
    /\ UNCHANGED << once, builds, dbvars, decvars, stashvars, call, propvars, streamvars >>

\* Database::new, second half: the matchers, and with them the Database.
ThreadNewMatchers(t) ==
    /\ threads[t].pc = "new_matchers"
    /\ threads' = [threads EXCEPT ![t].pc = "store",
                                  ![t].building = Some(DatabaseNew(mod_data, prefix_lines))]
    /\ UNCHANGED << once, builds, dbvars, decvars, stashvars, call, propvars, streamvars >>

\* The initializer returns: the Database is moved into the static and the
\* Once is complete.
ThreadStore(t) ==
    /\ threads[t].pc = "store"
    /\ ITEM_MODS' = threads[t].building
    /\ once' = "Complete"
    /\ threads' = [threads EXCEPT ![t].pc = "use", ![t].building = None]
    /\ UNCHANGED << builds, mod_data, prefix_lines, last, decvars, stashvars, call, propvars, streamvars >>

\* A blocked caller goes on once the Once is complete.
ThreadWake(t) ==
    /\ threads[t].pc = "waiting"
    /\ once = "Complete"
    /\ threads' = [threads EXCEPT ![t].pc = "use"]
    /\ UNCHANGED << once, builds, dbvars, decvars, stashvars, call, propvars, streamvars >>

\* The caller has its &Database and runs its function on it; none of the
\* functions takes &mut self.
ThreadUse(t) ==
    /\ threads[t].pc = "use"
    /\ threads' = [threads EXCEPT ![t].pc = "idle", ![t].seen = ITEM_MODS]
    /\ UNCHANGED << once, builds, dbvars, decvars, stashvars, call, propvars, streamvars >>

\* Nothing has touched the lazy static.
LazyInit ==
    /\ mod_data = ItemModData
    /\ prefix_lines = ItemPrefixLines
    /\ ITEM_MODS = None
    /\ last = NoCall
    /\ DecoderIdle
    /\ StashIdle
    /\ call = NoDecode
    /\ LazyIdle
    /\ PropertiesIdle
    /\ StreamIdle

LazyNext ==
    \E t \in Threads :
        \/ ThreadCall(t) \/ ThreadDeref(t) \/ ThreadNewIndex(t) \/ ThreadNewMatchers(t)
        \/ ThreadStore(t) \/ ThreadWake(t) \/ ThreadUse(t)

SpecLazy == LazyInit /\ [][LazyNext]_vars

\* The database as Database::new builds it from the data of the build.
Built == DatabaseNew(mod_data, prefix_lines)

\* No thread holds or has seen anything but the complete database.
NoPartialObservation ==
    \A t \in Threads :
        /\ threads[t].pc = "use" => ITEM_MODS = Some(Built)
        /\ threads[t].seen \in {None, Some(Built)}

\* C17: under any interleaving of initialize() calls and reads from several
\* threads the Database is constructed at most once, no caller observes a
\* database that is not completely built, and once the static holds the
\* database no step changes it.
C17_BuiltOnceNeverChanged ==
    /\ [](builds <= 1 /\ NoPartialObservation)
    /\ [][ITEM_MODS # None => ITEM_MODS' = ITEM_MODS]_vars

\* A caller is blocked on the Once while another thread has built the
\* database and not yet handed it over.
C17_Witness ==
    \E t, u \in Threads :
        /\ threads[t].pc = "waiting"
        /\ threads[u].pc = "store"
        /\ threads[u].building = Some(Built)
        /\ ITEM_MODS = None
        /\ builds = 1

\* The shards of a matcher: the prefix shards, then the fallback shard.
AllShards(rm) == (IF rm.shards = None THEN << >> ELSE rm.shards[1].items) \o rm.fallback

\* The places of a matcher that hold the template: shard and index.
PlacesOf(rm, id) ==
    { << s, k >> \in (1..Len(AllShards(rm))) \X (1..MaxTemplates) :
        k <= Len(AllShards(rm)[s].items) /\ AllShards(rm)[s].items[k] = id }

\* C18: once the Database is built its two indexes hold the same templates:
\* each template of the id index of a mod type is held by exactly one shard
\* of that type's matcher (a prefix shard or the fallback), once, next to
\* its pattern; and each template held by a matcher is in the id index of
\* the same mod type.
C18_IndexesHoldSameTemplates ==
    ITEM_MODS # None
    => LET db == ITEM_MODS[1] IN
       /\ DOMAIN db.matchers_by_type = DOMAIN db.by_type_and_id
       /\ \A mt \in DOMAIN db.by_type_and_id :
            LET rm == db.matchers_by_type[mt]
                infos == db.by_type_and_id[mt]
            IN /\ \A i \in 1..Len(infos) :
                    /\ Cardinality(PlacesOf(rm, infos[i].id)) = 1
                    /\ \A p \in PlacesOf(rm, infos[i].id) :
                         AllShards(rm)[p[1]].regex_set[p[2]] = infos[i].regex
               /\ \A s \in 1..Len(AllShards(rm)) :
                    /\ Len(AllShards(rm)[s].regex_set) = Len(AllShards(rm)[s].items)
                    /\ \A k \in 1..Len(AllShards(rm)[s].items) :
                         \E i \in 1..Len(infos) : infos[i].id = AllShards(rm)[s].items[k]

\* A database with a template in a prefix shard and another in the fallback.
C18_Witness ==
    /\ ITEM_MODS # None
    /\ \E mt \in DOMAIN ITEM_MODS[1].matchers_by_type :
         LET rm == ITEM_MODS[1].matchers_by_type[mt] IN
         /\ rm.shards # None
         /\ rm.fallback # None
         /\ Len(ITEM_MODS[1].by_type_and_id[mt]) = MaxTemplates


\* ---------------------------------------------------------------- C19
\* The text is a run of digits with at most one point among them.
IsPlainNumber(s) ==
    /\ \E i \in 1..Len(s) : IsDigit(s[i])
    /\ \A i \in 1..Len(s) : IsDigit(s[i]) \/ s[i] = "."
    /\ Cardinality({i \in 1..Len(s) : s[i] = "."}) <= 1

\* The text has one of the three shapes parse_number accepts: an integer, a
\* decimal, or two of them around a slash.
HasNumberShape(s) ==
    \/ IsPlainNumber(Trim(s))
    \/ \E i \in 1..Len(s) :
         /\ s[i] = "/"
         /\ IsPlainNumber(Trim(SubSeq(s, 1, i - 1)))
         /\ IsPlainNumber(Trim(SubSeq(s, i + 1, Len(s))))

\* C19: parse_number succeeds on an integer, a decimal and "N/M", and for a
\* text of any other shape returns the Syntax error, not the error of the
\* float or the integer parser.
C19_OtherShapesAreSyntaxErrors ==
    call.op = "parse_number"
    => IF HasNumberShape(call.parse_number.input) THEN call.parse_number.output.ok
       ELSE ~call.parse_number.output.ok /\ call.parse_number.output.err = "Syntax"


\* ---------------------------------------------------------------- C20
\* The documented subtypes: group, subtype, variant and the variant's type.
DocumentedSubtypes ==
    { <<"accessories", "amulet", "Accessory", "Amulet">>,
      <<"accessories", "belt", "Accessory", "Belt">>,
      <<"accessories", "ring", "Accessory", "Ring">>,
      <<"armour", "helmet", "Armour", "Helmet">>,
      <<"armour", "gloves", "Armour", "Gloves">>,
      <<"armour", "chest", "Armour", "Chest">>,
      <<"armour", "boots", "Armour", "Boots">>,
      <<"armour", "shield", "Armour", "Shield">>,
      <<"armour", "quiver", "Armour", "Quiver">>,
      <<"weapons", "bow", "Weapon", "Bow">>,
      <<"weapons", "claw", "Weapon", "Claw">>,
      <<"weapons", "dagger", "Weapon", "Dagger">>,
      <<"weapons", "oneaxe", "Weapon", "OneHandedAxe">>,
      <<"weapons", "onemace", "Weapon", "OneHandedMace">>,
      <<"weapons", "onesword", "Weapon", "OneHandedSword">>,
      <<"weapons", "sceptre", "Weapon", "Sceptre">>,
      <<"weapons", "staff", "Weapon", "Staff">>,
      <<"weapons", "twoaxe", "Weapon", "TwoHandedAxe">>,
      <<"weapons", "twomace", "Weapon", "TwoHandedMace">>,
      <<"weapons", "twosword", "Weapon", "TwoHandedSword">>,
      <<"weapons", "wand", "Weapon", "Wand">>,
      <<"jewels", "abyss", "Jewel", "Abyss">> }

\* The documented plain categories: name, variant and the variant's type.
DocumentedPlain ==
    { <<"jewels", "Jewel", "Regular">>, <<"flasks", "Flask", "">>,
      <<"maps", "Map", "">>, <<"gems", "Gem", "">>,
      <<"cards", "DivinationCard", "">>, <<"currency", "Currency", "">> }

DocumentedAmounts ==
    { << <<"1">>, Fraction(1, 1) >>, << <<"2", "5">>, Fraction(25, 1) >>,
      << <<"1", "/", "2">>, Fraction(1, 2) >>, << <<"1", ".", "5">>, Fraction(3, 2) >> }

\* The price the text "<amount> <currency>" stands for.
DocumentedPrice(a, currency) == [amount |-> a[2], currency |-> QuasiTrue(currency)]

\* C21: "~price <amount> <currency>" decodes to ExactPrice and
\* "~b/o <amount> <currency>" to NegotiablePrice, each with that amount and
\* currency; a non-empty string that does not start with a tilde decodes to
\* Cosmetic holding the string unchanged.
C21_LabelVariants ==
    call.op = "label"
    => /\ \A a \in DocumentedAmounts, currency \in LabelCurrencies \cap CurrencyNames :
            /\ call.label.input = EXACT_PRICE_PREFIX \o <<" ">> \o a[1] \o <<" ">> \o currency
               => call.label.output = Ok(LabelOf("ExactPrice", DocumentedPrice(a, currency)))
            /\ call.label.input = NEGOTIABLE_PRICE_PREFIX \o <<" ">> \o a[1] \o <<" ">> \o currency
               => call.label.output = Ok(LabelOf("NegotiablePrice", DocumentedPrice(a, currency)))
       /\ (call.label.input # << >> /\ call.label.input[1] # "~")
          => call.label.output = Ok(LabelOf("Cosmetic", call.label.input))

\* "~price 25 chaos" has been decoded to ExactPrice(25 chaos).
C21_Witness ==
    /\ call.op = "label"
    /\ call.label.input = <<"~", "p", "r", "i", "c", "e", " ", "2", "5", " ",
                      "c", "h", "a", "o", "s">>
    /\ call.label.output.ok
    /\ call.label.output.value[1].variant = "ExactPrice"
    /\ call.label.output.value[1].value.amount = Fraction(25, 1)


\* ---------------------------------------------------------------- C22
\* A capitalized word: a capital letter followed by small letters only.
IsCapitalized(w) ==
    /\ w # << >>
    /\ w[1] \in UpperLetters
    /\ \A i \in 2..Len(w) : w[i] \in Letters \ UpperLetters

\* What the claim says of a call of League::from_str, with the words that
\* count as season names given by the set of the accepted lengths.
LeagueParsedAsClaimed(lengths) ==
    LET words == SplitWhitespace(call.league.input)
        accepted ==
            /\ call.league.input # << >>
            /\ \A i \in 1..Len(words) :
                 \/ words[i] \in COMMON_WORDS
                 \/ (IsCapitalized(words[i]) /\ Len(words[i]) \in lengths)
        Flags(league) ==
            IF call.league.input \in PermanentNames
            THEN /\ ~league.temporary
                 /\ league.hardcore <=> Contains(call.league.input, <<"H", "a", "r", "d", "c", "o", "r", "e">>)
                 /\ league.ssf <=> Contains(call.league.input, <<"S", "S", "F">>)
            ELSE /\ league.temporary
                 /\ league.hardcore <=> (\/ Contains(call.league.input, <<"H", "a", "r", "d", "c", "o", "r", "e">>)
                                         \/ Contains(call.league.input, <<"H", "C">>))
                 /\ league.ssf <=> Contains(call.league.input, <<"S", "S", "F">>)
    IN /\ call.league.output.ok <=> accepted
       /\ ~call.league.output.ok => call.league.output.err \in {"Empty", "Malformed"}
       /\ call.league.output.ok => Flags(call.league.output.league[1])

\* C22: League::from_str accepts a name exactly when it is not empty and
\* each of its words is Standard, Hardcore, HC, SSF or a capitalized word,
\* and fails with Empty or Malformed otherwise; Standard, Hardcore, SSF
\* Standard and SSF Hardcore are the permanent leagues, every other accepted
\* name is a temporary league, hardcore iff it contains Hardcore or HC and
\* ssf iff it contains SSF.
C22_LeagueParsing_AnyCapitalizedWord ==
    call.op = "league" => LeagueParsedAsClaimed(1..(MaxWords * 8 + 2))

\* C22 as the code has it: a season word is a capitalized word of two letters
\* or more.
C22_LeagueParsing ==
    call.op = "league" => LeagueParsedAsClaimed(2..(MaxWords * 8 + 2))

\* "SSF Abyss HC" has been parsed to a temporary hardcore SSF league.
C22_Witness ==
    /\ call.op = "league"
    /\ call.league.input = <<"S", "S", "F", " ", "A", "b", "y", "s", "s", " ", "H", "C">>
    /\ call.league.output.ok
    /\ call.league.output.league[1] = LeagueOf(TRUE, TRUE, TRUE, Some(<<"A", "b", "y", "s", "s">>))


\* ---------------------------------------------------------------- C23
\* C23: for a template with k placeholders and k numeric values v,
\* format_text(v) is a text that parse_text of the same template parses back
\* to exactly v, in the same order.
C23_FormatParseRoundTrip ==
    (call.op = "format" /\ call.format.output.kind = "text")
    => /\ call.format.output.parsed.kind = "Some"
       /\ call.format.output.parsed.values = call.format.input.values


\* ---------------------------------------------------------------- C24
\* The typeLine the decoder has read, if it has read one.
TypeLineRead == read.values["typeLine"]

\* C24: decoding fails when typeLine is missing or empty, and every decoded
\* Item has a base that is not empty and is its typeLine with the
\* <<key:value>> tags removed.
C24_BaseIsTypeLineWithoutTags ==
    /\ (outcome.kind # "Pending" /\ (TypeLineRead = << >> \/ TypeLineRead = << << >> >>))
       => Failed(outcome)
    /\ outcome.kind = "Ok"
       => /\ Decoded.base # << >>
          /\ Decoded.base = remove_angle_bracket_tags(TypeLineRead[1])

\* ------------------------------------------------------------------ C25
\* p is a prefix of the pattern string s, character by character (a prefix
\* regex is "^" followed by the escaped prefix); ci: letter case is ignored.
IsLiteralPrefix(p, s, ci) ==
    /\ Len(p) <= Len(s)
    /\ \A i \in 1..Len(p) : IF ci THEN Lower(p[i]) = Lower(s[i]) ELSE p[i] = s[i]

\* The shard holds the pair: the template next to its pattern.
ShardHolds(shard, pair) ==
    \E k \in 1..Len(shard.items) :
        shard.items[k] = pair[2] /\ shard.regex_set[k].str = pair[1]

\* Every pair of the mapping is held exactly once, by the shard of the
\* longest supplied prefix that is a literal prefix of its pattern (the
\* first supplied of several such prefixes), or by the fallback shard when
\* no supplied prefix is one.
SplitAsClaimed(in, rm, ci) ==
    \A j \in 1..Len(in.mapping) :
        LET pair == in.mapping[j]
            matching == { i \in 1..Len(in.prefixes) :
                            IsLiteralPrefix(in.prefixes[i], pair[1], ci) }
            longest == { i \in matching :
                           \A k \in matching :
                               Len(in.prefixes[k]) <= Len(in.prefixes[i]) }
            first == CHOOSE i \in longest : \A k \in longest : i <= k
        IN /\ Cardinality(PlacesOf(rm, pair[2])) = 1
           /\ IF matching = {}
              THEN rm.fallback # None /\ ShardHolds(rm.fallback[1], pair)
              ELSE /\ rm.shards # None
                   /\ \E s \in 1..Len(rm.shards[1].items) :
                          /\ ShardHolds(rm.shards[1].items[s], pair)
                          /\ rm.shards[1].regex_set[s].str = in.prefixes[first]

TextMatchesTemplate ==
    IsMatch(ModInfo("explicit", 1, call.parse_text.input.template).regex,
            Trim(call.parse_text.input.text))

\* C26: parse_text returns None whenever the text does not match the
\* template's pattern, for every template including those without a
\* placeholder; it returns values only for texts that match.
C26_NoMatchIsNone ==
    call.op = "parse_text"
    => /\ ~TextMatchesTemplate => call.parse_text.output.kind = "None"
       /\ call.parse_text.output.kind = "Some" => TextMatchesTemplate

\* ----------------------------------------------------- properties calls
\* The keys and values the mutators of Properties are called with.
PropertyKeys == {"Spell", "Level", "Quality"}
PropertyValues == {"1", "20"}

\* A mutator has run on the container: what it was called with and what
\* it left and returned.
Called(op, key, value, r) ==
    /\ container' = r.props
    /\ prop_call' = [op |-> op, key |-> key, value |-> value,
                     before |-> container, ret |-> r.ret]
    /\ UNCHANGED << dbvars, decvars, stashvars, call, lazyvars, streamvars >>

Put == \E key \in PropertyKeys : Called("put", key, None, put(container, key))

PutWithValue ==
    \E key \in PropertyKeys, value \in PropertyValues :
        Called("put_with_value", key, Some(value), put_with_value(container, key, value))

Insert ==
    \E key \in PropertyKeys, opt_value \in {None} \cup { Some(v) : v \in PropertyValues } :
        Called("insert", key, opt_value, insert(container, key, opt_value))

Remove == \E key \in PropertyKeys : Called("remove", key, None, remove(container, key))

Clear == Called("clear", "", None, clear(container))

PropertiesInit == ItemInit

PropertiesNext == Put \/ PutWithValue \/ Insert \/ Remove \/ Clear

SpecProperties == PropertiesInit /\ [][PropertiesNext]_vars

\* ------------------------------------------------------------------ C27
\* The last call inserted a value-less property: put, or insert without a
\* value.
PutCalled ==
    \/ prop_call.op = "put"
    \/ prop_call.op = "insert" /\ prop_call.value = None

\* C27: put(key) returns None when the property did not exist before the
\* call, Some(None) when it existed without a value and Some(Some(v)) when
\* it existed with the value v; after the call the property exists without
\* a value.
C27_PutReturnsPrevious ==
    PutCalled
    => /\ prop_call.ret =
              IF prop_call.key \in prop_call.before.set THEN Some(None)
              ELSE IF prop_call.key \in DOMAIN prop_call.before.map
                   THEN Some(Some(prop_call.before.map[prop_call.key]))
                   ELSE None
       /\ prop_call.key \in container.set
       /\ prop_call.key \notin DOMAIN container.map

\* ------------------------------------------------------------------ C28
\* C28: starting from an empty container, after any sequence of put,
\* put_with_value, insert, remove and clear calls no key is held both as a
\* value-less property and as a valued one, and len() is the number of
\* distinct keys present.
C28_KeysHeldOnce ==
    /\ container.set \cap DOMAIN container.map = {}
    /\ PropertiesLen(container) = Cardinality(container.set \cup DOMAIN container.map)

\* A value-less property has just been given a value while another
\* property is present.
C28_Witness ==
    /\ prop_call.op = "put_with_value"
    /\ prop_call.key \in prop_call.before.set
    /\ prop_call.key \in DOMAIN container.map
    /\ PropertiesLen(container) = 2

\* ------------------------------------------------------------------ C29
\* C29: the result of resolve(mod_type, text) is determined by the set of
\* loaded templates, the mod type and the text alone: two databases built
\* from the same template records iterated in a different order return the
\* same template (and values) for every text, texts matched by several
\* templates included.
C29_ResolveIgnoresOrder ==
    call.op = "resolve" => call.resolve.output.first = call.resolve.output.second

\* ------------------------------------------------------ the stash stream
\* The requests a stream makes at most, and the pages the endpoint answers.
MaxPages == 3
MaxPageLen == 2
ChangeIds == {"c1", "c2"}
StashNames == {"s1", "s2"}

\* PublicStashTabsResponse
Responses ==
    [next_change_id : {None} \cup { Some(c) : c \in ChangeIds },
     stashes : StringsOver(StashNames, 0, MaxPageLen)]

\* Stashes::all and Stashes::since: the stream before it is polled.
StreamInit ==
    /\ mod_data = ItemModData
    /\ prefix_lines = ItemPrefixLines
    /\ ITEM_MODS = None
    /\ last = NoCall
    /\ DecoderIdle
    /\ StashIdle
    /\ call = NoDecode
    /\ LazyIdle
    /\ PropertiesIdle
    /\ \E change_id \in {None} \cup { Some(c) : c \in ChangeIds } :
           unfold = Unfold_Ready(State_Start(change_id))
    /\ flatten_next = None
    /\ requests = << >>
    /\ pages = << >>
    /\ yielded = << >>
    /\ ended = FALSE

\* The closure of stream::unfold on Start or Next: the request for the
\* state's change id is made.
Request ==
    /\ ~ended
    /\ flatten_next = None
    /\ unfold.kind = "Ready"
    /\ unfold.state[1].kind # "End"
    /\ Len(requests) < MaxPages
    /\ requests' = Append(requests, unfold.state[1].change_id)
    /\ unfold' = Unfold_Processing(unfold.state[1].change_id)
    /\ UNCHANGED << flatten_next, pages, yielded, ended >>
    /\ UNCHANGED << dbvars, decvars, stashvars, call, lazyvars, propvars >>

\* The response arrives: its stashes become the page Flatten drains, and
\* unfold is Ready with the next state.
Respond ==
    /\ unfold.kind = "Processing"
    /\ \E resp \in Responses :
           /\ pages' = Append(pages, resp)
           /\ unfold' = Unfold_Ready(next_state(unfold.change_id, resp))
           /\ flatten_next' = Some(resp.stashes)
    /\ UNCHANGED << requests, yielded, ended >>
    /\ UNCHANGED << dbvars, decvars, stashvars, call, lazyvars, propvars >>

\* client.get fails: the stream yields the error and unfold is left Empty.
RequestFails ==
    /\ unfold.kind = "Processing"
    /\ unfold' = Unfold_Empty
    /\ yielded' = Append(yielded, "Err")
    /\ UNCHANGED << flatten_next, requests, pages, ended >>
    /\ UNCHANGED << dbvars, decvars, stashvars, call, lazyvars, propvars >>

\* Flatten yields the next stash of the page it drains.
Yield ==
    /\ flatten_next # None
    /\ flatten_next[1] # << >>
    /\ yielded' = Append(yielded, Head(flatten_next[1]))
    /\ flatten_next' = Some(Tail(flatten_next[1]))
    /\ UNCHANGED << unfold, requests, pages, ended >>
    /\ UNCHANGED << dbvars, decvars, stashvars, call, lazyvars, propvars >>

\* The page is drained: Flatten goes back to unfold.
PageDone ==
    /\ flatten_next = Some(<< >>)
    /\ flatten_next' = None
    /\ UNCHANGED << unfold, requests, pages, yielded, ended >>
    /\ UNCHANGED << dbvars, decvars, stashvars, call, lazyvars, propvars >>

\* The closure returns None on State::End (or unfold is Empty after an
\* error): the stream is over.
End ==
    /\ ~ended
    /\ flatten_next = None
    /\ \/ unfold.kind = "Ready" /\ unfold.state[1].kind = "End"
       \/ unfold.kind = "Empty"
    /\ unfold' = Unfold_Empty
    /\ ended' = TRUE
    /\ UNCHANGED << flatten_next, requests, pages, yielded >>
    /\ UNCHANGED << dbvars, decvars, stashvars, call, lazyvars, propvars >>

StreamNext == Request \/ Respond \/ RequestFails \/ Yield \/ PageDone \/ End

SpecStream == StreamInit /\ [][StreamNext]_vars

\* The stream is driven by a consumer that polls it until it ends, and each
\* request gets an answer.
SpecStreamFair == SpecStream /\ WF_vars(StreamNext)

\* ------------------------------------------------------------------ C30
\* The stashes the consumer was given (errors aside).
StashesYielded == SelectSeq(yielded, LAMBDA x : x # "Err")

\* The stashes of the first n pages, in page order.
RECURSIVE StashesOfPages(_)
StashesOfPages(n) ==
    IF n = 0 THEN << >> ELSE StashesOfPages(n - 1) \o pages[n].stashes

\* The i-th response has no next_change_id, or the one its request carried.
IsLastPage(i) ==
    \/ pages[i].next_change_id = None
    \/ pages[i].next_change_id = requests[i]

\* What was yielded, followed by the rest of the page being drained, is the
\* stashes of the fetched pages in page order; no request follows a last
\* page; a stream that ended without an error ended on a last page with
\* every stash yielded.
StreamSafe ==
    /\ StashesYielded \o (IF flatten_next = None THEN << >> ELSE flatten_next[1])
           = StashesOfPages(Len(pages))
    /\ \A i \in 1..Len(pages) : IsLastPage(i) => Len(requests) = i
    /\ (ended /\ StashesYielded = yielded)
           => /\ pages # << >>
              /\ IsLastPage(Len(pages))
              /\ yielded = StashesOfPages(Len(pages))

\* From the End state on no request is made.
NoRequestAfterEnd ==
    (unfold.kind = "Empty" \/ (unfold.kind = "Ready" /\ unfold.state[1].kind = "End"))
    => requests' = requests

\* C30: the stream yields the stashes of every fetched page in page order,
\* those of the last page included; it stops after the first response whose
\* next_change_id is absent or equal to the change id just requested; and
\* once it has reached the End state it makes no further request.
C30_StashStream ==
    /\ []StreamSafe
    /\ [][NoRequestAfterEnd]_vars
    /\ \A n \in 1..MaxPages :
           (Len(pages) >= n) ~> (Len(pages) >= n
                                 /\ Len(StashesYielded) >= Len(StashesOfPages(n)))
    /\ (pages # << >> /\ IsLastPage(Len(pages))) ~> ended

\* The stream has ended after two pages, the second one answering with the
\* change id it was requested with, and all three stashes were yielded.
C30_Witness ==
    /\ ended
    /\ Len(pages) = 2
    /\ pages[2].next_change_id = requests[2]
    /\ pages[2].stashes # << >>
    /\ Len(yielded) = 3
    /\ yielded = pages[1].stashes \o pages[2].stashes

====
